---------------------------- MODULE Spec2Model ----------------------------
(***************************************************************************)
(* Reports API: the in-memory report store, the report service and the     *)
(* HTTP handlers of the reports (POST /reports, PUT /reports/:id, POST      *)
(* /reports/:id/attachment, GET /reports/:id and the attachment download). *)
(*                                                                         *)
(* A handler is an async function: it runs without interruption up to an   *)
(* `await`, and other handlers may run before it resumes.  Each action     *)
(* below is one such run-to-await segment of one handler.                  *)
(***************************************************************************)
EXTENDS Integers, Sequences, FiniteSets, TLC

(***************************************************************************)
(* Bounds of the model.                                                    *)
(***************************************************************************)
MaxReports == 2       \* reports that may be created
MaxLoad    == 5       \* the versions of the stored reports and the number
                      \* of stored files never sum to more
MaxFiles   == 2       \* files that may be uploaded where downloads are taken
MaxEntries == 3
MaxJobs    == 3       \* entries of the report whose projections are read

(***************************************************************************)
(* Program constants.                                                      *)
(***************************************************************************)
MaxTitleLen     == 200       \* z.string().min(1).max(200)
TokenTtlMinutes == 60        \* generateDownloadToken(stored.storageKey, 60)
MaxFileSize     == 5242880   \* MAX_FILE_SIZE default
SevenDaysMinutes    == 10080 \* 7 * 24 * 60 * 60 * 1000 ms
MockCompletionHours == 24    \* averageCompletionTime = 24
DefaultMaxRetries == 3       \* enqueue(type, payload, maxRetries = 3)
RetentionMinutes == 1440     \* setTimeout(..., 24 * 60 * 60 * 1000)

Procs == {1, 2}              \* handlers that may be in flight at once

(***************************************************************************)
(* Input domains.  A string that the code inspects character by character  *)
(* (a title, an owner id) is a sequence of one-character strings.          *)
(***************************************************************************)
Editor   == [userId |-> "alice", role |-> "editor"]
Reader   == [userId |-> "bob", role |-> "reader"]

\* POST /reports requests: the authenticated user and the body
PostRequests ==
    { [user |-> Editor, body |-> [title |-> <<"Q">>, ownerId |-> <<"u">>]],
      [user |-> Editor, body |-> [title |-> <<"q">>, ownerId |-> <<"u">>]],
      [user |-> Editor, body |-> [title |-> <<"q">>, ownerId |-> <<"v">>]],
      [user |-> Editor, body |-> [title |-> <<"r">>, ownerId |-> <<"u">>,
                                  status |-> "finalized"]],
      [user |-> Editor, body |-> [title |-> << >>, ownerId |-> <<"u">>]],
      [user |-> Reader, body |-> [title |-> <<"r">>, ownerId |-> <<"v">>]] }

\* PUT /reports/:id requests: the authenticated user, the body, the
\* If-Match header (<< >> when absent, else the number it parses to) and
\* the Idempotency-Key header (undefined when absent)
PutRequests ==
    { [user |-> Editor, body |-> [status |-> "finalized"],
       ifMatch |-> << >>, idempotencyKey |-> "undefined"],
      [user |-> Editor, body |-> [title |-> <<"r">>],
       ifMatch |-> <<2>>, idempotencyKey |-> "undefined"],
      [user |-> Editor, body |-> [title |-> <<"Q">>, force |-> TRUE],
       ifMatch |-> <<2>>, idempotencyKey |-> "k1"],
      [user |-> Editor, body |-> [title |-> << >>],
       ifMatch |-> << >>, idempotencyKey |-> "k1"],
      [user |-> Reader, body |-> [status |-> "draft"],
       ifMatch |-> << >>, idempotencyKey |-> "undefined"],
      [user |-> Reader, body |-> [title |-> <<"r">>, force |-> TRUE],
       ifMatch |-> <<2>>, idempotencyKey |-> "k1"] }

\* POST /reports/:id/attachment requests: the authenticated user and
\* multer's req.file, << >> when the request carries no file
UploadRequests ==
    { [user |-> Editor, file |-> [originalname |-> "a.pdf",
                                  mimetype |-> "application/pdf", size |-> 10]],
      [user |-> Editor, file |-> [originalname |-> "b.zip",
                                  mimetype |-> "application/zip", size |-> 10]],
      [user |-> Editor, file |-> [originalname |-> "c.txt",
                                  mimetype |-> "text/plain",
                                  size |-> MaxFileSize + 1]],
      [user |-> Editor, file |-> << >>],
      [user |-> Reader, file |-> [originalname |-> "a.pdf",
                                  mimetype |-> "application/pdf", size |-> 10]] }

\* The requests where downloads are taken: the creates and the uploads
\* that succeed
FilePosts ==
    { r \in PostRequests : r.body.title = <<"q">> }
TokenPosts ==
    { r \in FilePosts : r.body.ownerId = <<"u">> }
\* The report ids that these creates can give
TokenReports == 1..Cardinality(TokenPosts)
FileUploads ==
    { r \in UploadRequests :
          r.user = Editor /\ r.file # << >> /\ r.file.originalname = "a.pdf" }

\* The instants the clock takes: a token minted at 0 expires at
\* TokenTtlMinutes, is still accepted at that instant and is refused after
Instants == {0, TokenTtlMinutes, TokenTtlMinutes + 1}

\* Entries and a comment, as EntrySchema and CommentSchema accept them.
\* E4 has the id of E1 and nothing else in common with it
E1 == [id |-> "e1", priority |-> "low", timestamp |-> 1, value |-> 0,
       status |-> "pending"]
E2 == [id |-> "e2", priority |-> "critical", timestamp |-> 3, value |-> 0,
       status |-> "completed"]
E3 == [id |-> "e3", priority |-> "high", timestamp |-> 2, value |-> 0,
       status |-> "active"]
E4 == [id |-> "e1", priority |-> "high", timestamp |-> 4, value |-> 1,
       status |-> "cancelled"]
E5 == [id |-> "e5", priority |-> "medium", timestamp |-> 3, value |-> 0,
       status |-> "completed"]

K1 == [id |-> "c1", text |-> "t", author |-> "alice", createdAt |-> 0]

\* PUT /reports/:id requests that carry entries, comments or neither
EntryPuts ==
    { [user |-> Editor, body |-> b, ifMatch |-> << >>,
       idempotencyKey |-> "undefined"] :
          b \in { [entries |-> <<E1, E2>>], [entries |-> <<E4>>],
                  [entries |-> << >>], [comments |-> <<K1>>],
                  [title |-> <<"r">>] } }

\* The entry lists of the report whose projections are read: up to
\* MaxEntries different entries in any order
EntryLists ==
    { s \in UNION { [1..n -> {E1, E2, E3, E4}] : n \in 0..MaxEntries } :
          \A i, j \in DOMAIN s : i # j => s[i] # s[j] }

\* GET /reports/:id queries.  page and size are << >> when the query has
\* none (`req.query.page ? parseInt(..) : undefined`; the string "0" is
\* truthy), else <<the number parsed>>; include is << >> when absent, else
\* the list split at the commas
Pages == { <<n>> : n \in (0 - 2)..MaxEntries }
Sizes == { <<1>>, <<2>> }
Queries ==
    [view : {"undefined"}, include : {<< >>}, page : Pages, size : Sizes,
     sortBy : {"undefined", "priority", "recency"},
     filterPriority : {"undefined", "high"}]
    \cup
    [view : {"undefined", "summary"},
     include : {<< >>, <<"entries">>, <<"comments", "metrics">>},
     page : {<< >>, <<0>>}, size : {<< >>, <<1>>},
     sortBy : {"undefined"}, filterPriority : {"undefined"}]

\* The reports whose views are read: up to MaxEntries different entries in
\* any order, of every priority; a report with metadata, a comment and a
\* tag, and one with none of them
ViewLists ==
    { s \in UNION { [1..n -> {E1, E2, E3, E4, E5}] : n \in 0..MaxEntries } :
          \A i, j \in DOMAIN s : i # j => s[i] # s[j] }
ViewSetups ==
    [entries : ViewLists, rich : {FALSE}]
    \cup [entries : {<< >>, <<E3, E2>>}, rich : {TRUE}]


(***************************************************************************)
(* JavaScript values.                                                      *)
(***************************************************************************)
Undefined == "undefined"

\* obj.f, undefined when the object has no such key
Get(obj, f) == IF f \in DOMAIN obj THEN obj[f] ELSE Undefined

\* Truthiness of obj.f for a string-valued key: present and not empty
Truthy(obj, f) == f \in DOMAIN obj /\ obj[f] # << >>

\* { ...a, ...b }
Spread(a, b) ==
    [f \in DOMAIN a \cup DOMAIN b |-> IF f \in DOMAIN b THEN b[f] ELSE a[f]]

\* A rest pattern that keeps every key
OmitNothing(obj, f) == obj

\* const { f, ...rest } = obj
Omit(obj, f) == [g \in DOMAIN obj \ {f} |-> obj[g]]

\* map.set(k, v) and map.delete(k) on a Map kept as a function
MapSet(m, k, v) == [x \in DOMAIN m \cup {k} |-> IF x = k THEN v ELSE m[x]]
MapDelete(m, k) == [x \in DOMAIN m \ {k} |-> m[x]]
EmptyMap == [x \in {} |-> 0]

\* String.prototype.toLowerCase on the characters the model uses
LowerChar(c) ==
    CASE c = "Q" -> "q"
      [] c = "R" -> "r"
      [] OTHER   -> c
toLowerCase(s) == [i \in 1..Len(s) |-> LowerChar(s[i])]

\* Array.prototype.slice(start, end): a negative index counts from the end
\* of the array, and both indices are brought into 0..length
slice(arr, start, end) ==
    LET len == Len(arr)
        from == IF start < 0
                THEN (IF len + start < 0 THEN 0 ELSE len + start)
                ELSE (IF start > len THEN len ELSE start)
        to == IF end < 0
              THEN (IF len + end < 0 THEN 0 ELSE len + end)
              ELSE (IF end > len THEN len ELSE end)
    IN  IF from >= to THEN << >> ELSE SubSeq(arr, from + 1, to)

\* Math.ceil(a / b) of integers, b positive
ceil(a, b) == -((-a) \div b)

\* sort that puts elements with equal keys in the reverse of their order
sortUnstable(arr, key) ==
    LET n == Len(arr)
        rank(i) == 1 + Cardinality({ j \in 1..n :
                           \/ key[arr[j]] < key[arr[i]]
                           \/ key[arr[j]] = key[arr[i]] /\ j > i })
    IN  [r \in 1..n |-> arr[CHOOSE i \in 1..n : rank(i) = r]]

\* Array.prototype.sort with the comparator (a, b) => key[a] - key[b]: the
\* sort is stable, elements with equal keys keep their order
sort(arr, key) ==
    LET n == Len(arr)
        rank(i) == 1 + Cardinality({ j \in 1..n :
                           \/ key[arr[j]] < key[arr[i]]
                           \/ key[arr[j]] = key[arr[i]] /\ j < i })
    IN  [r \in 1..n |-> arr[CHOOSE i \in 1..n : rank(i) = r]]

\* includes that finds every value in an array that is not empty
includesAny(arr, x) == Len(arr) > 0

\* Array.prototype.includes
includes(arr, x) == \E i \in 1..Len(arr) : arr[i] = x

\* GET /reports/:id queries for the views: sort and filter without a page,
\* with a page, the include lists, the summary view
NoQuery ==
    [view |-> "undefined", include |-> << >>, page |-> << >>, size |-> << >>,
     sortBy |-> "undefined", filterPriority |-> "undefined"]
SortQueries ==
    { Spread(NoQuery, q) :
        q \in [sortBy : {"undefined", "priority", "recency", "timestamp", "title"},
               filterPriority : {"undefined", "high", "medium"}] }
PagedQueries ==
    { Spread(NoQuery, q) :
        q \in [page : {<<0>>}, size : {<<2>>},
               sortBy : {"undefined", "priority"},
               filterPriority : {"undefined", "high"}]
              \cup [page : {<<1>>}, size : {<<1>>}, filterPriority : {"medium"}] }
IncludeQueries ==
    { Spread(NoQuery, q) :
        q \in [include : { <<"entries">>, <<"comments">>, <<"attachments">>,
                           <<"metadata">>, <<"tags">>, <<"auditLog">>,
                           <<"metrics">>, <<"entries", "metrics", "tags">>,
                           <<"entries", "comments", "attachments", "metadata",
                             "tags", "auditLog", "metrics">>,
                           <<"description">>, <<"version", "id">> }]
              \cup [include : {<<"entries">>, <<"tags">>},
                    page : {<<0>>}, size : {<<2>>},
                    sortBy : {"priority"}, filterPriority : {"high"}]
              \cup [view : {"full"}, include : {<<"comments">>}] }
SummaryQueries ==
    { Spread(NoQuery, q) :
        q \in [view : {"summary"}]
              \cup [view : {"summary"}, include : {<<"entries">>, <<"auditLog">>}]
              \cup [view : {"summary"}, page : {<<0>>}, size : {<<1>>}]
              \cup [view : {"summary"}, sortBy : {"priority"},
                    filterPriority : {"high"}]
              \cup [view : {"summary"}, include : {<<"entries", "tags">>},
                    page : {<<1>>}, size : {<<2>>}, sortBy : {"recency"},
                    filterPriority : {"medium"}] }
ViewQueries == SortQueries \cup PagedQueries \cup IncludeQueries \cup SummaryQueries

(***************************************************************************)
(* utils/errors.ts: AppError, and the two ways a call ends.                *)
(***************************************************************************)
AppError(statusCode, code) == [statusCode |-> statusCode, code |-> code]
AppErrorWith(statusCode, code, details) ==
    [statusCode |-> statusCode, code |-> code, details |-> details]
Throw(error) == [ok |-> FALSE, error |-> error]

(***************************************************************************)
(* database/inMemoryDb.ts: InMemoryDatabase.  A database value db is       *)
(* [reports, businessKeyIndex], the two private maps.                      *)
(***************************************************************************)
getBusinessKey(title, ownerId) == toLowerCase(title) \o <<":">> \o ownerId

\* create without the look-up of the business key in the index
createNoDuplicateCheck(db, report, id, now) ==
    LET businessKey == getBusinessKey(report.title, report.ownerId)
        newReport ==
            Spread(report,
                   [id |-> id, createdAt |-> now, updatedAt |-> now,
                    version |-> 1, entries |-> << >>, comments |-> << >>,
                    attachments |-> << >>, auditLog |-> << >>,
                    tags |-> IF "tags" \in DOMAIN report
                             THEN report.tags ELSE << >>])
    IN  [ok |-> TRUE,
         db |-> [reports |-> MapSet(db.reports, id, newReport),
                 businessKeyIndex |->
                     MapSet(db.businessKeyIndex, businessKey, id)],
         value |-> newReport]

create(db, report, id, now) ==
    LET businessKey == getBusinessKey(report.title, report.ownerId) IN
    IF businessKey \in DOMAIN db.businessKeyIndex
    THEN Throw(AppError(409, "DUPLICATE_REPORT"))
    ELSE LET newReport ==
                 Spread(report,
                        [id |-> id, createdAt |-> now, updatedAt |-> now,
                         version |-> 1, entries |-> << >>, comments |-> << >>,
                         attachments |-> << >>, auditLog |-> << >>,
                         tags |-> IF "tags" \in DOMAIN report
                                  THEN report.tags ELSE << >>])
         IN  [ok |-> TRUE,
              db |-> [reports |-> MapSet(db.reports, id, newReport),
                      businessKeyIndex |->
                          MapSet(db.businessKeyIndex, businessKey, id)],
              value |-> newReport]

getById(db, id) == IF id \in DOMAIN db.reports THEN db.reports[id] ELSE Undefined

\* update that writes the merged report back at the version it had
updateKeepVersion(db, id, updates, now) ==
    IF id \notin DOMAIN db.reports
    THEN Throw(AppError(404, "REPORT_NOT_FOUND"))
    ELSE LET existing == db.reports[id]
             updated == Spread(Spread(existing, updates),
                               [id |-> existing.id,
                                createdAt |-> existing.createdAt,
                                updatedAt |-> now, version |-> existing.version])
         IN  [ok |-> TRUE,
              db |-> [reports |-> MapSet(db.reports, id, updated),
                      businessKeyIndex |-> db.businessKeyIndex],
              value |-> updated]

\* update without the look-up of the new business key in the index
updateNoCollisionCheck(db, id, updates, now) ==
    IF id \notin DOMAIN db.reports
    THEN Throw(AppError(404, "REPORT_NOT_FOUND"))
    ELSE
    LET existing == db.reports[id]
        rekey == Truthy(updates, "title") \/ Truthy(updates, "ownerId")
        oldBusinessKey == getBusinessKey(existing.title, existing.ownerId)
        newTitle == IF Truthy(updates, "title")
                    THEN updates.title ELSE existing.title
        newOwnerId == IF Truthy(updates, "ownerId")
                      THEN updates.ownerId ELSE existing.ownerId
        newBusinessKey == getBusinessKey(newTitle, newOwnerId)
        moved == rekey /\ oldBusinessKey # newBusinessKey
        updated == Spread(Spread(existing, updates),
                          [id |-> existing.id, createdAt |-> existing.createdAt,
                           updatedAt |-> now, version |-> existing.version + 1])
    IN  [ok |-> TRUE,
         db |-> [reports |-> MapSet(db.reports, id, updated),
                 businessKeyIndex |->
                     IF moved
                     THEN MapSet(MapDelete(db.businessKeyIndex, oldBusinessKey),
                                 newBusinessKey, id)
                     ELSE db.businessKeyIndex],
         value |-> updated]

\* update that leaves the old key in the index when the report moves
updateKeepOldKey(db, id, updates, now) ==
    IF id \notin DOMAIN db.reports
    THEN Throw(AppError(404, "REPORT_NOT_FOUND"))
    ELSE
    LET existing == db.reports[id]
        rekey == Truthy(updates, "title") \/ Truthy(updates, "ownerId")
        oldBusinessKey == getBusinessKey(existing.title, existing.ownerId)
        newTitle == IF Truthy(updates, "title")
                    THEN updates.title ELSE existing.title
        newOwnerId == IF Truthy(updates, "ownerId")
                      THEN updates.ownerId ELSE existing.ownerId
        newBusinessKey == getBusinessKey(newTitle, newOwnerId)
        moved == rekey /\ oldBusinessKey # newBusinessKey
        updated == Spread(Spread(existing, updates),
                          [id |-> existing.id, createdAt |-> existing.createdAt,
                           updatedAt |-> now, version |-> existing.version + 1])
    IN  IF /\ moved
           /\ newBusinessKey \in DOMAIN db.businessKeyIndex
           /\ db.businessKeyIndex[newBusinessKey] # id
        THEN Throw(AppError(409, "DUPLICATE_REPORT"))
        ELSE [ok |-> TRUE,
              db |-> [reports |-> MapSet(db.reports, id, updated),
                      businessKeyIndex |->
                          IF moved
                          THEN MapSet(db.businessKeyIndex, newBusinessKey, id)
                          ELSE db.businessKeyIndex],
              value |-> updated]

\* update where the keys of the payload are spread last
updatePayloadLast(db, id, updates, now) ==
    IF id \notin DOMAIN db.reports
    THEN Throw(AppError(404, "REPORT_NOT_FOUND"))
    ELSE
    LET existing == db.reports[id]
        rekey == Truthy(updates, "title") \/ Truthy(updates, "ownerId")
        oldBusinessKey == getBusinessKey(existing.title, existing.ownerId)
        newTitle == IF Truthy(updates, "title")
                    THEN updates.title ELSE existing.title
        newOwnerId == IF Truthy(updates, "ownerId")
                      THEN updates.ownerId ELSE existing.ownerId
        newBusinessKey == getBusinessKey(newTitle, newOwnerId)
        moved == rekey /\ oldBusinessKey # newBusinessKey
        updated == Spread(Spread(existing,
                                 [id |-> existing.id, createdAt |-> existing.createdAt,
                                  updatedAt |-> now, version |-> existing.version + 1]),
                          updates)
    IN  IF /\ moved
           /\ newBusinessKey \in DOMAIN db.businessKeyIndex
           /\ db.businessKeyIndex[newBusinessKey] # id
        THEN Throw(AppError(409, "DUPLICATE_REPORT"))
        ELSE [ok |-> TRUE,
              db |-> [reports |-> MapSet(db.reports, id, updated),
                      businessKeyIndex |->
                          IF moved
                          THEN MapSet(MapDelete(db.businessKeyIndex, oldBusinessKey),
                                      newBusinessKey, id)
                          ELSE db.businessKeyIndex],
              value |-> updated]

update(db, id, updates, now) ==
    IF id \notin DOMAIN db.reports
    THEN Throw(AppError(404, "REPORT_NOT_FOUND"))
    ELSE
    LET existing == db.reports[id]
        rekey == Truthy(updates, "title") \/ Truthy(updates, "ownerId")
        oldBusinessKey == getBusinessKey(existing.title, existing.ownerId)
        newTitle == IF Truthy(updates, "title")
                    THEN updates.title ELSE existing.title
        newOwnerId == IF Truthy(updates, "ownerId")
                      THEN updates.ownerId ELSE existing.ownerId
        newBusinessKey == getBusinessKey(newTitle, newOwnerId)
        moved == rekey /\ oldBusinessKey # newBusinessKey
        updated == Spread(Spread(existing, updates),
                          [id |-> existing.id, createdAt |-> existing.createdAt,
                           updatedAt |-> now, version |-> existing.version + 1])
    IN  IF /\ moved
           /\ newBusinessKey \in DOMAIN db.businessKeyIndex
           /\ db.businessKeyIndex[newBusinessKey] # id
        THEN Throw(AppError(409, "DUPLICATE_REPORT"))
        ELSE [ok |-> TRUE,
              db |-> [reports |-> MapSet(db.reports, id, updated),
                      businessKeyIndex |->
                          IF moved
                          THEN MapSet(MapDelete(db.businessKeyIndex, oldBusinessKey),
                                      newBusinessKey, id)
                          ELSE db.businessKeyIndex],
              value |-> updated]

\* delete that leaves the entry of the business-key index
deleteKeepIndex(db, id) ==
    IF id \notin DOMAIN db.reports
    THEN [value |-> FALSE, db |-> db]
    ELSE [value |-> TRUE,
          db |-> [reports |-> MapDelete(db.reports, id),
                  businessKeyIndex |-> db.businessKeyIndex]]

\* delete: the boolean returned and the maps it leaves
delete(db, id) ==
    IF id \notin DOMAIN db.reports
    THEN [value |-> FALSE, db |-> db]
    ELSE LET report == db.reports[id]
             businessKey == getBusinessKey(report.title, report.ownerId)
         IN  [value |-> TRUE,
              db |-> [reports |-> MapDelete(db.reports, id),
                      businessKeyIndex |->
                          MapDelete(db.businessKeyIndex, businessKey)]]

(***************************************************************************)
(* services/fileStorage.service.ts: the download tokens.  Time is counted  *)
(* in minutes.                                                             *)
(***************************************************************************)
cleanupExpiredTokens(tokens, now) ==
    [t \in { x \in DOMAIN tokens : ~(tokens[x].expiresAt < now) } |-> tokens[t]]

\* generateDownloadToken without the cleanup
generateDownloadTokenNoPurge(tokens, token, storageKey, expiresInMinutes, now) ==
    MapSet(tokens, token,
           [storageKey |-> storageKey, expiresAt |-> now + expiresInMinutes])

generateDownloadToken(tokens, token, storageKey, expiresInMinutes, now) ==
    cleanupExpiredTokens(
        MapSet(tokens, token,
               [storageKey |-> storageKey, expiresAt |-> now + expiresInMinutes]),
        now)

allowedMimeTypes ==
    { "application/pdf", "image/jpeg", "image/png", "image/gif",
      "application/msword",
      "application/vnd.openxmlformats-officedocument.wordprocessingml.document",
      "application/vnd.ms-excel",
      "application/vnd.openxmlformats-officedocument.spreadsheetml.sheet",
      "text/plain", "text/csv" }

\* path.extname on the file names the model uses
extname(name) ==
    CASE name = "a.pdf" -> ".pdf"
      [] name = "b.zip" -> ".zip"
      [] name = "c.txt" -> ".txt"
      [] OTHER          -> ""

\* validateFile without the comparison of the size with the maximum
validateFileAnySize(file) ==
    IF file.mimetype \notin allowedMimeTypes
    THEN Throw(AppError(400, "INVALID_FILE_TYPE"))
    ELSE [ok |-> TRUE]

validateFile(file) ==
    IF file.size > MaxFileSize
    THEN Throw(AppError(400, "FILE_TOO_LARGE"))
    ELSE IF file.mimetype \notin allowedMimeTypes
    THEN Throw(AppError(400, "INVALID_FILE_TYPE"))
    ELSE [ok |-> TRUE]

\* validateDownloadToken without the comparison of expiresAt with the clock
validateDownloadTokenNoExpiry(tokens, token, now) ==
    IF token \notin DOMAIN tokens
    THEN [value |-> << >>, tokens |-> tokens]
    ELSE [value |-> <<tokens[token].storageKey>>, tokens |-> tokens]

\* validateDownloadToken for tokens of a single use: a token that validates
\* is taken out of the map
validateDownloadTokenOnce(tokens, token, now) ==
    IF token \notin DOMAIN tokens
    THEN [value |-> << >>, tokens |-> tokens]
    ELSE IF tokens[token].expiresAt < now
    THEN [value |-> << >>, tokens |-> MapDelete(tokens, token)]
    ELSE [value |-> <<tokens[token].storageKey>>,
          tokens |-> MapDelete(tokens, token)]

\* validateDownloadToken: the value returned, << >> for null and
\* <<storageKey>> otherwise, and the token map it leaves
validateDownloadToken(tokens, token, now) ==
    IF token \notin DOMAIN tokens
    THEN [value |-> << >>, tokens |-> tokens]
    ELSE IF tokens[token].expiresAt < now
    THEN [value |-> << >>, tokens |-> MapDelete(tokens, token)]
    ELSE [value |-> <<tokens[token].storageKey>>, tokens |-> tokens]

\* retrieve: the bytes of the file stored under the key, named by the key.
\* Storage keys are uuids, all of one length, so the file whose name starts
\* with the key is the file stored under it
retrieve(stored, storageKey) ==
    IF storageKey \in stored
    THEN [ok |-> TRUE, value |-> storageKey]
    ELSE Throw(AppError(404, "FILE_NOT_FOUND"))

(***************************************************************************)
(* models/report.model.ts: the zod schemas of the request bodies.          *)
(***************************************************************************)
TitleOk(t) == Len(t) >= 1 /\ Len(t) <= MaxTitleLen

\* CreateReportSchema.parse: the defaults are filled in
CreateReportSchema(body) ==
    IF ~TitleOk(body.title)
    THEN Throw(AppError(400, "VALIDATION_ERROR"))
    ELSE [ok |-> TRUE,
          value |-> Spread([status |-> "draft", tags |-> << >>], body)]

UpdateReportSchema(body) ==
    IF "title" \in DOMAIN body /\ ~TitleOk(body.title)
    THEN Throw(AppError(400, "VALIDATION_ERROR"))
    ELSE [ok |-> TRUE, value |-> body]

(***************************************************************************)
(* services/report.service.ts: ReportService.                              *)
(***************************************************************************)
createReport(db, input, userId, id, now) ==
    LET report == create(db, input, id, now) IN
    IF ~report.ok THEN report
    ELSE LET auditEntry == [timestamp |-> now, userId |-> userId,
                            action |-> "CREATED", after |-> input]
         IN  update(report.db, report.value.id, [auditLog |-> <<auditEntry>>], now)

getReportById(db, id) ==
    IF id \in DOMAIN db.reports
    THEN [ok |-> TRUE, value |-> db.reports[id]]
    ELSE Throw(AppError(404, "REPORT_NOT_FOUND"))

\* updates.force || false
Forced(updates) == "force" \in DOMAIN updates /\ updates.force

\* The audit entry and the store write of updateReport, with the entries
\* of the payload left out of the write
WriteUpdateNoEntries(db, existing, id, updates, userId, idempotencyKey, now) ==
    LET auditEntry ==
            [timestamp |-> now, userId |-> userId, action |-> "UPDATED",
             before |-> [title |-> existing.title,
                         status |-> existing.status,
                         description |-> Get(existing, "description"),
                         metadata |-> Get(existing, "metadata"),
                         tags |-> existing.tags],
             after |-> updates,
             metadata |-> [forced |-> Forced(updates),
                           idempotencyKey |-> idempotencyKey]]
        actualUpdates == Omit(Omit(updates, "force"), "entries")
        newAuditLog == Append(existing.auditLog, auditEntry)
    IN  update(db, id, Spread(actualUpdates, [auditLog |-> newAuditLog]), now)

\* The audit entry and the store write of updateReport, lines 91-119
WriteUpdate(db, existing, id, updates, userId, idempotencyKey, now) ==
    LET auditEntry ==
            [timestamp |-> now, userId |-> userId, action |-> "UPDATED",
             before |-> [title |-> existing.title,
                         status |-> existing.status,
                         description |-> Get(existing, "description"),
                         metadata |-> Get(existing, "metadata"),
                         tags |-> existing.tags],
             after |-> updates,
             metadata |-> [forced |-> Forced(updates),
                           idempotencyKey |-> idempotencyKey]]
        actualUpdates == Omit(updates, "force")
        newAuditLog == Append(existing.auditLog, auditEntry)
    IN  update(db, id, Spread(actualUpdates, [auditLog |-> newAuditLog]), now)

\* updateReport without the comparison of the expected version
updateReportNoVersionCheck(db, existing, id, updates, userId, userRole, version, idempotencyKey, now) ==
    IF existing.status = "finalized" /\ userRole # "editor"
    THEN Throw(AppError(403, "FORBIDDEN"))
    ELSE IF existing.status = "finalized" /\ ~Forced(updates)
    THEN Throw(AppError(400, "FORCE_REQUIRED"))
    ELSE WriteUpdate(db, existing, id, updates, userId, idempotencyKey, now)

\* updateReport without the test of the force flag on a finalized report
updateReportNoForceRule(db, existing, id, updates, userId, userRole, version, idempotencyKey, now) ==
    IF version # << >> /\ existing.version # version[1]
    THEN Throw(AppErrorWith(409, "VERSION_CONFLICT",
                            [currentVersion |-> existing.version,
                             providedVersion |-> version[1]]))
    ELSE IF existing.status = "finalized" /\ userRole # "editor"
    THEN Throw(AppError(403, "FORBIDDEN"))
    ELSE WriteUpdate(db, existing, id, updates, userId, idempotencyKey, now)

\* updateReport with the finalized rule tested before the expected version
updateReportPolicyFirst(db, existing, id, updates, userId, userRole, version, idempotencyKey, now) ==
    IF existing.status = "finalized" /\ userRole # "editor"
    THEN Throw(AppError(403, "FORBIDDEN"))
    ELSE IF existing.status = "finalized" /\ ~Forced(updates)
    THEN Throw(AppError(400, "FORCE_REQUIRED"))
    ELSE IF version # << >> /\ existing.version # version[1]
    THEN Throw(AppErrorWith(409, "VERSION_CONFLICT",
                            [currentVersion |-> existing.version,
                             providedVersion |-> version[1]]))
    ELSE WriteUpdate(db, existing, id, updates, userId, idempotencyKey, now)

\* updateReport from the point where `await this.getReportById(id)` has
\* returned `existing`; version is the parsed If-Match header, << >> when
\* the header is absent
updateReport(db, existing, id, updates, userId, userRole, version, idempotencyKey, now) ==
    IF version # << >> /\ existing.version # version[1]
    THEN Throw(AppErrorWith(409, "VERSION_CONFLICT",
                            [currentVersion |-> existing.version,
                             providedVersion |-> version[1]]))
    ELSE IF existing.status = "finalized" /\ userRole # "editor"
    THEN Throw(AppError(403, "FORBIDDEN"))
    ELSE IF existing.status = "finalized" /\ ~Forced(updates)
    THEN Throw(AppError(400, "FORCE_REQUIRED"))
    ELSE WriteUpdate(db, existing, id, updates, userId, idempotencyKey, now)

\* computeFields: the entries counted; a timestamp is recent when it is
\* later than seven days before the clock.  averageCompletionTime is
\* undefined, and so absent from the JSON sent, when no entry is completed
computeFields(report, now) ==
    LET completed == SelectSeq(report.entries, LAMBDA e : e.status = "completed")
        recent == SelectSeq(report.entries,
                            LAMBDA e : e.timestamp > now - SevenDaysMinutes)
        high == SelectSeq(report.entries,
                          LAMBDA e : e.priority = "high" \/ e.priority = "critical")
    IN  Spread([totalEntries |-> Len(report.entries),
                completedEntries |-> Len(completed),
                recentActivityCount |-> Len(recent),
                highPriorityCount |-> Len(high)],
               IF Len(completed) > 0
               THEN [averageCompletionTime |-> MockCompletionHours]
               ELSE EmptyMap)

priorityOrder == [critical |-> 0, high |-> 1, medium |-> 2, low |-> 3]

\* filterAndPaginateEntries where a filter that no entry passes is dropped
filterAndPaginateEntriesFallback(entries, page, size, sortBy, filterPriority) ==
    LET matching ==
            IF filterPriority # Undefined /\ filterPriority # ""
            THEN SelectSeq(entries, LAMBDA e : e.priority = filterPriority)
            ELSE entries
        filtered0 == IF matching = << >> THEN entries ELSE matching
        elements == { filtered0[i] : i \in 1..Len(filtered0) }
        byPriority == [e \in elements |-> priorityOrder[e.priority]]
        byRecency == [e \in elements |-> 0 - e.timestamp]
        filtered ==
            IF sortBy = "priority" THEN sort(filtered0, byPriority)
            ELSE IF sortBy = "recency" \/ sortBy = "timestamp"
            THEN sort(filtered0, byRecency)
            ELSE filtered0
    IN  IF page # << >> /\ size # << >>
        THEN LET start == page[1] * size[1]
                 end == start + size[1]
             IN  [data |-> slice(filtered, start, end),
                  pagination |-> [page |-> page[1], size |-> size[1],
                                  total |-> Len(filtered),
                                  totalPages |-> ceil(Len(filtered), size[1])]]
        ELSE [array |-> filtered]

\* filterAndPaginateEntries.  page and size are << >> when undefined, else
\* <<n>>; sortBy and filterPriority are strings or undefined.  The value
\* returned is an array or an object: the array is kept as [array |-> ..]
\* so that both have one shape
filterAndPaginateEntries(entries, page, size, sortBy, filterPriority) ==
    LET filtered0 ==
            IF filterPriority # Undefined /\ filterPriority # ""
            THEN SelectSeq(entries, LAMBDA e : e.priority = filterPriority)
            ELSE entries
        elements == { filtered0[i] : i \in 1..Len(filtered0) }
        byPriority == [e \in elements |-> priorityOrder[e.priority]]
        byRecency == [e \in elements |-> 0 - e.timestamp]
        filtered ==
            IF sortBy = "priority" THEN sort(filtered0, byPriority)
            ELSE IF sortBy = "recency" \/ sortBy = "timestamp"
            THEN sort(filtered0, byRecency)
            ELSE filtered0
    IN  IF page # << >> /\ size # << >>
        THEN LET start == page[1] * size[1]
                 end == start + size[1]
             IN  [data |-> slice(filtered, start, end),
                  pagination |-> [page |-> page[1], size |-> size[1],
                                  total |-> Len(filtered),
                                  totalPages |-> ceil(Len(filtered), size[1])]]
        ELSE [array |-> filtered]

\* getReportWithView.  include is << >> when undefined
getReportWithView(d, id, view, include, entriesPage, entriesSize, sortBy, filterPriority, now) ==
    LET found == getReportById(d, id)
        report == found.value
        entries == filterAndPaginateEntries(report.entries, entriesPage,
                                            entriesSize, sortBy, filterPriority)
        base == [id |-> report.id, title |-> report.title,
                 status |-> report.status, ownerId |-> report.ownerId,
                 createdAt |-> report.createdAt,
                 updatedAt |-> report.updatedAt]
        Field(name, value) ==
            IF includes(include, name) THEN name :> value ELSE EmptyMap
    IN  IF ~found.ok THEN found
        ELSE IF view = "summary"
        THEN [ok |-> TRUE, value |-> Spread(base, computeFields(report, now))]
        ELSE IF Len(include) > 0
        THEN [ok |-> TRUE,
              value |->
                  Spread(Spread(Spread(Spread(Spread(Spread(Spread(
                      Spread(base, [version |-> report.version]),
                      Field("entries", entries)),
                      Field("metrics", computeFields(report, now))),
                      Field("comments", report.comments)),
                      Field("attachments", report.attachments)),
                      Field("metadata", Get(report, "metadata"))),
                      Field("tags", report.tags)),
                      Field("auditLog", report.auditLog))]
        ELSE [ok |-> TRUE, value |-> Spread(report, [entries |-> entries])]

\* addAttachment that also appends an entry to the audit log
addAttachmentAudited(db, report, reportId, attachment, now) ==
    LET updatedAttachments == Append(report.attachments, attachment)
        auditEntry == [timestamp |-> now, userId |-> attachment.uploadedBy,
                       action |-> "UPDATED"]
    IN  update(db, reportId,
               [attachments |-> updatedAttachments,
                auditLog |-> Append(report.auditLog, auditEntry)], now)

\* addAttachment from the point where `await this.getReportById(reportId)`
\* has returned `report`
addAttachment(db, report, reportId, attachment, now) ==
    LET updatedAttachments == Append(report.attachments, attachment)
    IN  update(db, reportId, [attachments |-> updatedAttachments], now)

\* report.attachments.find(a => a.id === attachmentId): << >> when there is
\* none, else the first such attachment in a one-element sequence
find(attachments, attachmentId) ==
    LET hits == { i \in 1..Len(attachments) : attachments[i].id = attachmentId }
    IN  IF hits = {} THEN << >>
        ELSE <<attachments[CHOOSE i \in hits : \A j \in hits : i <= j]>>

\* The download route from the validated storage key on, without the
\* comparison of the attachment's storage key with the token's
serveAttachmentAnyKey(d, stored, storageKey, id, attachmentId) ==
    LET report == getReportById(d, id)
        attachment == find(report.value.attachments, attachmentId)
        fileBuffer == retrieve(stored, storageKey)
    IN  IF ~report.ok THEN report
        ELSE IF attachment = << >>
        THEN Throw(AppError(404, "ATTACHMENT_NOT_FOUND"))
        ELSE IF ~fileBuffer.ok THEN fileBuffer
        ELSE [ok |-> TRUE,
              value |-> [statusCode |-> 200,
                         contentType |-> attachment[1].mimeType,
                         filename |-> attachment[1].originalName,
                         file |-> fileBuffer.value]]

\* The download route from the validated storage key on: the report, the
\* attachment, the comparison of the keys, the bytes, the response
serveAttachment(d, stored, storageKey, id, attachmentId) ==
    LET report == getReportById(d, id)
        attachment == find(report.value.attachments, attachmentId)
        fileBuffer == retrieve(stored, storageKey)
    IN  IF ~report.ok THEN report
        ELSE IF attachment = << >>
        THEN Throw(AppError(404, "ATTACHMENT_NOT_FOUND"))
        ELSE IF attachment[1].storageKey # storageKey
        THEN Throw(AppError(403, "FORBIDDEN"))
        ELSE IF ~fileBuffer.ok THEN fileBuffer
        ELSE [ok |-> TRUE,
              value |-> [statusCode |-> 200,
                         contentType |-> attachment[1].mimeType,
                         filename |-> attachment[1].originalName,
                         file |-> fileBuffer.value]]

\* authorize that lets every role through
authorizeAnyRole(allowedRoles, user) == [ok |-> TRUE]

\* middleware/authorization.middleware.ts
authorize(allowedRoles, user) ==
    IF user.role \notin allowedRoles
    THEN Throw(AppError(403, "FORBIDDEN"))
    ELSE [ok |-> TRUE]

(***************************************************************************)
(* services/jobQueue.service.ts.  The queue is its job list, in insertion  *)
(* order, and its processing flag; a job is its type, the report of its    *)
(* payload, its retries, its maxRetries and its status.                    *)
(***************************************************************************)
EmptyQueue == [jobs |-> << >>, processing |-> FALSE]

\* the job found by processQueue: the first that is pending, or failed with
\* retries left; 0 when there is none
pendingJob(jobs) ==
    LET found == { j \in 1..Len(jobs) :
                     \/ jobs[j].status = "pending"
                     \/ /\ jobs[j].status = "failed"
                        /\ jobs[j].retries < jobs[j].maxRetries }
    IN  IF found = {} THEN 0
        ELSE CHOOSE j \in found : \A k \in found : j <= k

\* processQueue, from `this.processing = true` or from the return of
\* processJob, to its next await or to its break: processJob marks the job
\* found as processing before it awaits executeJob
processQueue(queue) ==
    LET j == pendingJob(queue.jobs)
    IN  IF j = 0
        THEN [queue EXCEPT !.processing = FALSE]
        ELSE [jobs |-> [queue.jobs EXCEPT ![j].status = "processing"],
              processing |-> TRUE]

\* processJob, from the return or the throw of executeJob
processJobForgiving(queue, j, threw) ==
    LET job == queue.jobs[j]
    IN  IF ~threw
        THEN [queue EXCEPT !.jobs[j].status = "completed"]
        ELSE [queue EXCEPT !.jobs[j].retries = job.retries + 1,
                           !.jobs[j].status = "pending"]

processJob(queue, j, threw) ==
    LET job == queue.jobs[j]
    IN  IF ~threw
        THEN [queue EXCEPT !.jobs[j].status = "completed"]
        ELSE IF job.retries + 1 >= job.maxRetries
        THEN [queue EXCEPT !.jobs[j].retries = job.retries + 1,
                           !.jobs[j].status = "failed"]
        ELSE [queue EXCEPT !.jobs[j].retries = job.retries + 1,
                           !.jobs[j].status = "pending"]

\* enqueue that starts a processQueue loop whatever the flag says
enqueueAlways(queue, type, reportId, maxRetries) ==
    processQueue([queue EXCEPT !.jobs = Append(@,
        [type |-> type, reportId |-> reportId, retries |-> 0,
         maxRetries |-> maxRetries, status |-> "pending"])])

\* enqueue that drops the job
enqueueNothing(queue, type, reportId, maxRetries) == queue

enqueue(queue, type, reportId, maxRetries) ==
    LET job == [type |-> type, reportId |-> reportId, retries |-> 0,
                maxRetries |-> maxRetries, status |-> "pending"]
        added == [queue EXCEPT !.jobs = Append(@, job)]
    IN  IF ~queue.processing THEN processQueue(added) ELSE added

(***************************************************************************)
(* routes/reports.routes.ts, the retention of a cached response: the       *)
(* setTimeout of the PUT handler registers the deletion of the key, and    *)
(* the callback, once due, deletes it.                                     *)
(***************************************************************************)
\* a PUT handler that registers no deletion
setTimeoutNever(pending, idempotencyKey, delay, now) == pending

setTimeout(pending, idempotencyKey, delay, now) ==
    pending \cup {[idempotencyKey |-> idempotencyKey, at |-> now + delay]}

(***************************************************************************)
(* The state: the store's two maps, the routes' idempotency cache and its  *)
(* pending deletions, the job queue, the file storage's token map and      *)
(* stored files, the clock, the handlers in flight and the response sent   *)
(* last.                                                                   *)
(***************************************************************************)
VARIABLES
    reports,            \* InMemoryDatabase.reports: id -> report
    businessKeyIndex,   \* InMemoryDatabase.businessKeyIndex: key -> id
    idempotencyCache,   \* reports.routes.ts idempotencyCache: key -> response
    timers,             \* the pending setTimeout deletions of cached keys:
                        \* [idempotencyKey, at]
    jobQueue,           \* JobQueue: its jobs and its processing flag
    downloadTokens,     \* FileStorageService.downloadTokens: token -> binding
    files,              \* storage keys of the files written to uploadDir
    minted,             \* number of download tokens minted so far
    tokenLog,           \* the 'Download token generated' log lines:
                        \* token -> [storageKey, expiresAt]
    now,                \* the clock, in minutes
    proc,               \* per handler: where it is suspended and its locals
    last                \* the response sent by the latest step, if it sent one

vars == <<reports, businessKeyIndex, idempotencyCache, timers, jobQueue,
          downloadTokens, files, minted, tokenLog, now, proc, last>>

db == [reports |-> reports, businessKeyIndex |-> businessKeyIndex]

Idle == [pc |-> "idle"]
NoResponse == [statusCode |-> 0]

Init ==
    /\ reports = EmptyMap
    /\ businessKeyIndex = EmptyMap
    /\ idempotencyCache = EmptyMap
    /\ timers = {}
    /\ jobQueue = EmptyQueue
    /\ downloadTokens = EmptyMap
    /\ files = {}
    /\ minted = 0
    /\ tokenLog = EmptyMap
    /\ now = 0
    /\ proc = [p \in Procs |-> Idle]
    /\ last = NoResponse

\* res.status(..).json(..) and, for a thrown AppError, the error middleware:
\* the status and the error are kept; the body of a success is the value
\* the handler names
Send(statusCode) == last' = [statusCode |-> statusCode]
SendBody(statusCode, body) == last' = [statusCode |-> statusCode, body |-> body]
Respond(error) == last' = error
Silent == last' = NoResponse

SetDb(d) == reports' = d.reports /\ businessKeyIndex' = d.businessKeyIndex

\* uuidv4(): an identifier not in use
NewReportId == CHOOSE i \in 1..(Cardinality(DOMAIN reports) + 1) : i \notin DOMAIN reports

\* The versions of the stored reports, the stored files and the store
\* writes that the handlers in flight have yet to make, summed: a request
\* arrives while the sum it can lead to is within the bound
RECURSIVE SumVersions(_)
SumVersions(ids) ==
    IF ids = {} THEN 0
    ELSE LET i == CHOOSE x \in ids : TRUE
         IN  reports[i].version + SumVersions(ids \ {i})
Pending == { p \in Procs : proc[p].pc \in {"put_read", "upload_stored", "upload_read"} }
Load == SumVersions(DOMAIN reports) + Cardinality(files) + Cardinality(Pending)
Room(k) == Load + k <= MaxLoad

\* The token of a download request: none, one never minted (0) or one of
\* those minted so far
DownloadTokens == {<< >>} \cup { <<t>> : t \in 0..minted }

\* A request that arrives is taken by the first handler slot that is free
Free(p) ==
    /\ proc[p].pc = "idle"
    /\ \A q \in Procs : q < p => proc[q].pc # "idle"

\* A look-up of the idempotency cache that finds nothing
CacheNeverHit(cache, idempotencyKey) == FALSE

\* The request carries an Idempotency-Key and the cache holds a response
\* under it
CacheHit(cache, idempotencyKey) ==
    idempotencyKey # Undefined /\ idempotencyKey \in DOMAIN cache

(***************************************************************************)
(* POST /reports.  db.create, db.update and jobQueue.enqueue run without   *)
(* an await between them; the response follows the await of enqueue and    *)
(* changes nothing, so the handler is one step.                            *)
(***************************************************************************)
PostReport(p, user, body) ==
    /\ Free(p)
    /\ LET auth == authorize({"editor"}, user)
           validated == CreateReportSchema(body)
           report == createReport(db, validated.value, user.userId,
                                  NewReportId, now)
       IN  IF ~auth.ok
           THEN Respond(auth.error) /\ UNCHANGED <<reports, businessKeyIndex, jobQueue>>
           ELSE IF ~validated.ok
           THEN Respond(validated.error) /\ UNCHANGED <<reports, businessKeyIndex, jobQueue>>
           ELSE IF ~report.ok
           THEN Respond(report.error) /\ UNCHANGED <<reports, businessKeyIndex, jobQueue>>
           ELSE /\ SetDb(report.db)
                /\ jobQueue' = enqueue(jobQueue, "report-created",
                                       NewReportId, DefaultMaxRetries)
                /\ Send(201)
    /\ UNCHANGED <<idempotencyCache, timers, downloadTokens, files, minted,
                   tokenLog, now, proc>>

(***************************************************************************)
(* PUT /reports/:id, up to `await this.getReportById(id)` in updateReport: *)
(* authorization, the idempotency cache, validation, the read of the       *)
(* report.                                                                 *)
(***************************************************************************)
PutStart(p, user, id, body, ifMatch, idempotencyKey) ==
    /\ Free(p)
    /\ LET auth == authorize({"editor"}, user)
           validated == UpdateReportSchema(body)
           existing == getReportById(db, id)
       IN  IF ~auth.ok
           THEN Respond(auth.error) /\ UNCHANGED proc
           ELSE IF CacheHit(idempotencyCache, idempotencyKey)
           THEN /\ SendBody(200, idempotencyCache[idempotencyKey])
                /\ UNCHANGED proc
           ELSE IF ~validated.ok
           THEN Respond(validated.error) /\ UNCHANGED proc
           ELSE IF ~existing.ok
           THEN Respond(existing.error) /\ UNCHANGED proc
           ELSE /\ proc' = [proc EXCEPT ![p] =
                        [pc |-> "put_read", existing |-> existing.value,
                         id |-> id, updates |-> validated.value, user |-> user,
                         version |-> ifMatch,
                         idempotencyKey |-> idempotencyKey]]
                /\ Silent
    /\ UNCHANGED <<reports, businessKeyIndex, idempotencyCache, downloadTokens,
                   files, minted, tokenLog, now,
                   timers, jobQueue>>

(***************************************************************************)
(* PUT /reports/:id, from the return of getReportById to the await of      *)
(* jobQueue.enqueue: the version check, the finalized rule, the audit      *)
(* entry and the store write.  A thrown error is the response.             *)
(***************************************************************************)
PutResume(p) ==
    /\ proc[p].pc = "put_read"
    /\ LET me == proc[p]
           updated == updateReport(db, me.existing, me.id, me.updates,
                                   me.user.userId, me.user.role, me.version,
                                   me.idempotencyKey, now)
       IN  IF ~updated.ok
           THEN /\ Respond(updated.error)
                /\ proc' = [proc EXCEPT ![p] = Idle]
                /\ UNCHANGED <<reports, businessKeyIndex, jobQueue>>
           ELSE /\ SetDb(updated.db)
                /\ jobQueue' = enqueue(jobQueue, "report-updated", me.id,
                                       DefaultMaxRetries)
                /\ proc' = [proc EXCEPT ![p] =
                        [pc |-> "put_written", updated |-> updated.value,
                         id |-> me.id, version |-> me.version,
                         idempotencyKey |-> me.idempotencyKey]]
                /\ Silent
    /\ UNCHANGED <<idempotencyCache, timers, downloadTokens, files, minted,
                   tokenLog, now>>

(***************************************************************************)
(* PUT /reports/:id, after updateReport has returned: the result is cached *)
(* under the idempotency key and sent.                                     *)
(***************************************************************************)
PutFinish(p) ==
    /\ proc[p].pc = "put_written"
    /\ LET me == proc[p]
       IN  /\ idempotencyCache' =
                  IF me.idempotencyKey # Undefined
                  THEN MapSet(idempotencyCache, me.idempotencyKey, me.updated)
                  ELSE idempotencyCache
           /\ timers' =
                  IF me.idempotencyKey # Undefined
                  THEN setTimeout(timers, me.idempotencyKey, RetentionMinutes, now)
                  ELSE timers
           /\ Send(200)
    /\ proc' = [proc EXCEPT ![p] = Idle]
    /\ UNCHANGED <<reports, businessKeyIndex, jobQueue, downloadTokens, files,
                   minted, tokenLog, now>>

(***************************************************************************)
(* POST /reports/:id/attachment, up to `await fileStorage.store(req.file)`:*)
(* authorization, the file checks, the write of the file under a new       *)
(* storage key.                                                            *)
(***************************************************************************)
UploadStart(p, user, id, file) ==
    /\ Free(p)
    /\ LET auth == authorize({"editor"}, user)
           valid == validateFile(file)
           storageKey == Cardinality(files) + 1
           filename == <<storageKey, extname(file.originalname)>>
       IN  IF ~auth.ok
           THEN Respond(auth.error) /\ UNCHANGED <<files, proc>>
           ELSE IF file = << >>
           THEN Respond(AppError(400, "NO_FILE")) /\ UNCHANGED <<files, proc>>
           ELSE IF ~valid.ok
           THEN Respond(valid.error) /\ UNCHANGED <<files, proc>>
           ELSE /\ files' = files \cup {storageKey}
                /\ proc' = [proc EXCEPT ![p] =
                        [pc |-> "upload_stored", id |-> id, file |-> file,
                         user |-> user,
                         stored |-> [storageKey |-> storageKey,
                                     filename |-> filename]]]
                /\ Silent
    /\ UNCHANGED <<reports, businessKeyIndex, idempotencyCache, downloadTokens,
                   minted, tokenLog, now,
                   timers, jobQueue>>

(***************************************************************************)
(* POST /reports/:id/attachment, from the return of store to               *)
(* `await this.getReportById(reportId)` in addAttachment: the download     *)
(* token, the attachment record, the read of the report.                   *)
(***************************************************************************)
UploadMint(p) ==
    /\ proc[p].pc = "upload_stored"
    /\ LET me == proc[p]
           downloadToken == minted + 1
           attachment ==
               [id |-> minted + 1, filename |-> me.stored.filename,
                originalName |-> me.file.originalname,
                mimeType |-> me.file.mimetype,
                size |-> me.file.size, uploadedAt |-> now,
                uploadedBy |-> me.user.userId,
                storageKey |-> me.stored.storageKey,
                downloadToken |-> downloadToken,
                tokenExpiresAt |-> now + TokenTtlMinutes]
           report == getReportById(db, me.id)
       IN  /\ minted' = minted + 1
           /\ tokenLog' = MapSet(tokenLog, downloadToken,
                                 [storageKey |-> me.stored.storageKey,
                                  expiresAt |-> now + TokenTtlMinutes])
           /\ downloadTokens' =
                  generateDownloadToken(downloadTokens, downloadToken,
                                        me.stored.storageKey, TokenTtlMinutes,
                                        now)
           /\ IF ~report.ok
              THEN Respond(report.error) /\ proc' = [proc EXCEPT ![p] = Idle]
              ELSE /\ proc' = [proc EXCEPT ![p] =
                           [pc |-> "upload_read", report |-> report.value,
                            id |-> me.id, attachment |-> attachment]]
                   /\ Silent
    /\ UNCHANGED <<reports, businessKeyIndex, idempotencyCache, files, now,
                   timers, jobQueue>>

(***************************************************************************)
(* POST /reports/:id/attachment, from the return of getReportById: the     *)
(* attachment is appended to the list read before the await and written    *)
(* to the store.  The response follows the await of enqueue and changes    *)
(* nothing.                                                                *)
(***************************************************************************)
UploadResume(p) ==
    /\ proc[p].pc = "upload_read"
    /\ LET me == proc[p]
           updated == addAttachment(db, me.report, me.id, me.attachment, now)
       IN  IF ~updated.ok
           THEN Respond(updated.error) /\ UNCHANGED <<reports, businessKeyIndex, jobQueue>>
           ELSE /\ SetDb(updated.db)
                /\ jobQueue' = enqueue(jobQueue, "attachment-uploaded",
                                       me.id, DefaultMaxRetries)
                /\ Send(201)
    /\ proc' = [proc EXCEPT ![p] = Idle]
    /\ UNCHANGED <<idempotencyCache, timers, downloadTokens, files, minted,
                   tokenLog, now>>

(***************************************************************************)
(* GET /reports/:id/attachments/:attachmentId/download.  The token is      *)
(* validated, and deleted when expired, before the first await; the        *)
(* report is read at the call of getReportById, attachment records are     *)
(* never changed in place and no route deletes a stored file, so what      *)
(* follows the awaits depends on nothing that another handler can change:  *)
(* the handler is one step.  token is << >> when the query has none.       *)
(***************************************************************************)
Download(token, id, attachmentId) ==
    /\ LET validated == validateDownloadToken(downloadTokens, token[1], now)
           served == serveAttachment(db, files, validated.value[1], id,
                                     attachmentId)
       IN  IF token = << >>
           THEN /\ Respond(AppError(401, "TOKEN_REQUIRED"))
                /\ UNCHANGED downloadTokens
           ELSE /\ downloadTokens' = validated.tokens
                /\ IF validated.value = << >>
                   THEN Respond(AppError(401, "INVALID_TOKEN"))
                   ELSE IF ~served.ok
                   THEN Respond(served.error)
                   ELSE last' = served.value
    /\ UNCHANGED <<reports, businessKeyIndex, idempotencyCache, files, minted,
                   tokenLog, now, proc,
                   timers, jobQueue>>

(***************************************************************************)
(* GET /reports/:id.  The report is read at the call of getReportById and  *)
(* the projection is computed from what was read: the handler is one step. *)
(***************************************************************************)
\* res.json(report): JSON.stringify leaves out a key whose value is
\* undefined.  Of the keys of a view only metadata can be undefined
json(value) ==
    [f \in { g \in DOMAIN value :
                 ~(g = "metadata" /\ value[g] = Undefined) } |-> value[f]]

GetReport(user, id, query) ==
    /\ LET auth == authorize({"reader", "editor"}, user)
           report == getReportWithView(db, id, query.view, query.include,
                                       query.page, query.size, query.sortBy,
                                       query.filterPriority, now)
       IN  IF ~auth.ok THEN Respond(auth.error)
           ELSE IF ~report.ok THEN Respond(report.error)
           ELSE SendBody(200, json(report.value))
    /\ UNCHANGED <<reports, businessKeyIndex, idempotencyCache, downloadTokens,
                   files, minted, tokenLog, now, proc,
                   timers, jobQueue>>

(***************************************************************************)
(* Time passes: the clock moves to a later instant.                        *)
(***************************************************************************)
Tick ==
    /\ \E t \in Instants : t > now /\ now' = t
    /\ Silent
    /\ UNCHANGED <<reports, businessKeyIndex, idempotencyCache, downloadTokens,
                   files, minted, tokenLog, proc,
                   timers, jobQueue>>

(***************************************************************************)
(* The job the queue is executing settles: executeJob returns, or throws   *)
(* its simulated failure, processJob records the outcome and processQueue  *)
(* goes on to the next job or stops.                                       *)
(***************************************************************************)
ExecuteJob(j, threw) ==
    /\ j \in DOMAIN jobQueue.jobs
    /\ jobQueue.jobs[j].status = "processing"
    /\ jobQueue' = processQueue(processJob(jobQueue, j, threw))
    /\ Silent
    /\ UNCHANGED <<reports, businessKeyIndex, idempotencyCache, timers,
                   downloadTokens, files, minted, tokenLog, now, proc>>

(***************************************************************************)
(* A deletion registered by the PUT handler comes due and runs.            *)
(***************************************************************************)
TimerFires(timer) ==
    /\ timer \in timers
    /\ timer.at <= now
    /\ timers' = timers \ {timer}
    /\ idempotencyCache' = MapDelete(idempotencyCache, timer.idempotencyKey)
    /\ Silent
    /\ UNCHANGED <<reports, businessKeyIndex, jobQueue, downloadTokens, files,
                   minted, tokenLog, now, proc>>

Next ==
    \E p \in Procs :
        \/ \E r \in PostRequests :
                /\ Cardinality(DOMAIN reports) < MaxReports
                /\ Room(2)
                /\ PostReport(p, r.user, r.body)
        \/ \E id \in 1..MaxReports, r \in PutRequests :
                /\ Room(1)
                /\ PutStart(p, r.user, id, r.body, r.ifMatch, r.idempotencyKey)
        \/ PutResume(p)
        \/ PutFinish(p)
        \/ \E id \in 1..MaxReports, r \in UploadRequests :
                /\ Room(2)
                /\ UploadStart(p, r.user, id, r.file)
        \/ UploadMint(p)
        \/ UploadResume(p)

Spec == Init /\ [][Next]_vars

(***************************************************************************)
(* The requests one at a time: a request arrives when no handler is in     *)
(* flight.                                                                 *)
(***************************************************************************)
Quiet == \A q \in Procs : proc[q].pc = "idle"

NextSerial ==
    \E p \in Procs :
        \/ \E r \in PostRequests :
                /\ Quiet
                /\ Cardinality(DOMAIN reports) < MaxReports
                /\ Room(2)
                /\ PostReport(p, r.user, r.body)
        \/ \E id \in 1..MaxReports, r \in PutRequests :
                /\ Quiet
                /\ Room(1)
                /\ PutStart(p, r.user, id, r.body, r.ifMatch, r.idempotencyKey)
        \/ PutResume(p)
        \/ PutFinish(p)
        \/ \E id \in 1..MaxReports, r \in UploadRequests :
                /\ Quiet
                /\ Room(2)
                /\ UploadStart(p, r.user, id, r.file)
        \/ UploadMint(p)
        \/ UploadResume(p)

SpecSerial == Init /\ [][NextSerial]_vars

(***************************************************************************)
(* The attachments of the reports: creates, uploads and downloads.         *)
(***************************************************************************)
NextFiles ==
    \/ \E p \in Procs, r \in FilePosts :
            /\ Cardinality(DOMAIN reports) < MaxReports
            /\ PostReport(p, r.user, r.body)
    \/ \E p \in Procs, id \in 1..MaxReports, r \in FileUploads :
            /\ Cardinality(files) < MaxFiles
            /\ UploadStart(p, r.user, id, r.file)
    \/ \E p \in Procs : UploadMint(p)
    \/ \E p \in Procs : UploadResume(p)
    \/ \E token \in DownloadTokens, id \in 1..MaxReports,
          attachmentId \in 1..MaxFiles :
            Download(token, id, attachmentId)

SpecFiles == Init /\ [][NextFiles]_vars

(***************************************************************************)
(* The download tokens over time: uploads to one report, downloads and the *)
(* clock.                                                                  *)
(***************************************************************************)
NextTokens ==
    \/ \E p \in Procs, r \in TokenPosts :
            /\ Cardinality(DOMAIN reports) < MaxReports
            /\ PostReport(p, r.user, r.body)
    \/ \E p \in Procs, id \in TokenReports, r \in FileUploads :
            /\ Cardinality(files) < MaxFiles
            /\ UploadStart(p, r.user, id, r.file)
    \/ \E p \in Procs : UploadMint(p)
    \/ \E p \in Procs : UploadResume(p)
    \/ \E token \in DownloadTokens, id \in TokenReports,
          attachmentId \in 1..MaxFiles :
            Download(token, id, attachmentId)
    \/ Tick

SpecTokens == Init /\ [][NextTokens]_vars

(***************************************************************************)
(* The lists of a report under update: a create and updates that carry     *)
(* entries, comments or neither.                                           *)
(***************************************************************************)
NextEntries ==
    \E p \in Procs :
        \/ \E r \in TokenPosts :
                /\ Cardinality(DOMAIN reports) < MaxReports
                /\ Room(2)
                /\ PostReport(p, r.user, r.body)
        \/ \E id \in 1..MaxReports, r \in EntryPuts :
                /\ Room(1)
                /\ PutStart(p, r.user, id, r.body, r.ifMatch, r.idempotencyKey)
        \/ PutResume(p)
        \/ PutFinish(p)

SpecEntries == Init /\ [][NextEntries]_vars

(***************************************************************************)
(* The projections of a report that holds entries: the report is created   *)
(* and given its entries by one update, then read with every query.        *)
(***************************************************************************)
InitPage ==
    \E entries \in EntryLists :
        LET input == CreateReportSchema([title |-> <<"q">>, ownerId |-> <<"u">>]).value
            created == createReport([reports |-> EmptyMap,
                                     businessKeyIndex |-> EmptyMap],
                                    input, Editor.userId, 1, 0)
            updated == updateReport(created.db, created.value, 1,
                                    [entries |-> entries], Editor.userId,
                                    Editor.role, << >>, Undefined, 0)
        IN  /\ reports = updated.db.reports
            /\ businessKeyIndex = updated.db.businessKeyIndex
            /\ idempotencyCache = EmptyMap
            /\ timers = {}
            /\ jobQueue = EmptyQueue
            /\ downloadTokens = EmptyMap
            /\ files = {}
            /\ minted = 0
            /\ tokenLog = EmptyMap
            /\ now = 0
            /\ proc = [p \in Procs |-> Idle]
            /\ last = NoResponse

NextPage ==
    \E user \in {Reader, Editor}, id \in 1..MaxReports, query \in Queries :
        GetReport(user, id, query)

SpecPage == InitPage /\ [][NextPage]_vars

(***************************************************************************)
(* The views of one stored report: it is created, with or without          *)
(* metadata and a tag, and updated with its entries and comments more than *)
(* seven days after the oldest timestamp of an entry; then it is read.     *)
(***************************************************************************)
ViewClock == SevenDaysMinutes + 2

InitView ==
    \E setup \in ViewSetups :
        LET body == IF setup.rich
                    THEN [title |-> <<"q">>, ownerId |-> <<"u">>,
                          metadata |-> "m", tags |-> <<"t">>]
                    ELSE [title |-> <<"q">>, ownerId |-> <<"u">>]
            input == CreateReportSchema(body).value
            created == createReport([reports |-> EmptyMap,
                                     businessKeyIndex |-> EmptyMap],
                                    input, Editor.userId, 1, ViewClock)
            updated == updateReport(created.db, created.value, 1,
                                    [entries |-> setup.entries,
                                     comments |-> IF setup.rich
                                                  THEN <<K1>> ELSE << >>],
                                    Editor.userId, Editor.role, << >>,
                                    Undefined, ViewClock)
        IN  /\ reports = updated.db.reports
            /\ businessKeyIndex = updated.db.businessKeyIndex
            /\ idempotencyCache = EmptyMap
            /\ timers = {}
            /\ jobQueue = EmptyQueue
            /\ downloadTokens = EmptyMap
            /\ files = {}
            /\ minted = 0
            /\ tokenLog = EmptyMap
            /\ now = ViewClock
            /\ proc = [p \in Procs |-> Idle]
            /\ last = NoResponse

NextView ==
    \E query \in ViewQueries : GetReport(Reader, 1, query)

SpecView == InitView /\ [][NextView]_vars

(***************************************************************************)
(* The store on its own: calls of InMemoryDatabase.create and              *)
(* InMemoryDatabase.update with reports and payloads of its parameter      *)
(* types, titles and owners with and without the ':' of the business key.  *)
(***************************************************************************)
StoreReports ==
    { [title |-> <<"q">>, ownerId |-> <<"u">>, status |-> "draft"],
      [title |-> <<"Q">>, ownerId |-> <<"u">>, status |-> "draft"],
      [title |-> <<"q">>, ownerId |-> <<"v">>, status |-> "draft"],
      [title |-> <<"q", ":", "u">>, ownerId |-> <<"v">>, status |-> "draft"],
      [title |-> <<"q">>, ownerId |-> <<"u", ":", "v">>, status |-> "draft"] }

StoreUpdates ==
    { [title |-> <<"q">>],
      [title |-> <<"q", ":", "u">>],
      [ownerId |-> <<"u", ":", "v">>],
      [status |-> "finalized", tags |-> <<"t">>],
      [id |-> 9, createdAt |-> 99, version |-> 7, status |-> "archived"] }

\* db.create(report): the report returned or the error thrown
DbCreate(report) ==
    LET created == create(db, report, NewReportId, now)
    IN  /\ IF created.ok
           THEN SetDb(created.db) /\ last' = [returned |-> created.value]
           ELSE Respond(created.error) /\ UNCHANGED <<reports, businessKeyIndex>>
        /\ UNCHANGED <<idempotencyCache, downloadTokens, files, minted,
                       tokenLog, now, proc,
                   timers, jobQueue>>

\* db.update(id, updates): the report returned or the error thrown
DbUpdate(id, updates) ==
    LET updated == update(db, id, updates, now)
    IN  /\ IF updated.ok
           THEN SetDb(updated.db) /\ last' = [returned |-> updated.value]
           ELSE Respond(updated.error) /\ UNCHANGED <<reports, businessKeyIndex>>
        /\ UNCHANGED <<idempotencyCache, downloadTokens, files, minted,
                       tokenLog, now, proc,
                   timers, jobQueue>>

\* db.delete(id): the boolean returned
DbDelete(id) ==
    LET deleted == delete(db, id)
    IN  /\ SetDb(deleted.db)
        /\ last' = [deleted |-> deleted.value]
        /\ UNCHANGED <<idempotencyCache, downloadTokens, files, minted,
                       tokenLog, now, proc,
                   timers, jobQueue>>

NextStore ==
    \/ \E report \in StoreReports :
            /\ Cardinality(DOMAIN reports) < MaxReports
            /\ DbCreate(report)
    \/ \E id \in 1..MaxReports, updates \in StoreUpdates :
            /\ Room(1)
            /\ DbUpdate(id, updates)

SpecStore == Init /\ [][NextStore]_vars

\* The store with its delete
NextDeletes ==
    \/ NextStore
    \/ \E id \in 1..MaxReports : DbDelete(id)

SpecDeletes == Init /\ [][NextDeletes]_vars

(***************************************************************************)
(* The job queue alone: jobQueue.enqueue called with the types of the      *)
(* report service and with a maxRetries of 1 or of the default, against    *)
(* the execution of the jobs.  The fair specification lets no executing    *)
(* job wait for ever: the timer that executeJob awaits always resolves.    *)
(***************************************************************************)
JobTypes == {"report-created", "attachment-uploaded"}
RetryPool == {1, DefaultMaxRetries}

Enqueue(type, reportId, maxRetries) ==
    /\ Len(jobQueue.jobs) < MaxJobs
    /\ jobQueue' = enqueue(jobQueue, type, reportId, maxRetries)
    /\ Silent
    /\ UNCHANGED <<reports, businessKeyIndex, idempotencyCache, timers,
                   downloadTokens, files, minted, tokenLog, now, proc>>

Work == \E j \in 1..MaxJobs, threw \in BOOLEAN : ExecuteJob(j, threw)

NextQueue ==
    \/ \E type \in JobTypes, maxRetries \in RetryPool :
         Enqueue(type, 1, maxRetries)
    \/ Work

SpecQueue == Init /\ [][NextQueue]_vars

SpecQueueFair == Init /\ [][NextQueue]_vars /\ WF_vars(Work)

(***************************************************************************)
(* The requests that enqueue jobs, one at a time, against the execution of *)
(* the jobs: creates, updates and uploads that succeed, and ones that fail *)
(* on validation, on the role, on the version, on a duplicate and on an    *)
(* absent report.                                                          *)
(***************************************************************************)
JobPosts ==
    { r \in PostRequests :
          r.body.ownerId = <<"u">> /\ r.body.title \in {<<"q">>, << >>} }
JobPuts == { r \in PutRequests : r.idempotencyKey = "undefined" }
JobUploads ==
    { r \in UploadRequests :
          r.user = Editor /\ r.file # << >> /\ r.file.originalname # "b.zip" }

NextJobs ==
    \/ \E p \in Procs, r \in JobPosts :
            /\ Quiet
            /\ Cardinality(DOMAIN reports) < MaxReports
            /\ Room(2)
            /\ PostReport(p, r.user, r.body)
    \/ \E p \in Procs, id \in 1..MaxReports, r \in JobPuts :
            /\ Quiet
            /\ Room(1)
            /\ PutStart(p, r.user, id, r.body, r.ifMatch, r.idempotencyKey)
    \/ \E p \in Procs : PutResume(p)
    \/ \E p \in Procs : PutFinish(p)
    \/ \E p \in Procs, id \in 1..MaxReports, r \in JobUploads :
            /\ Quiet
            /\ Room(2)
            /\ UploadStart(p, r.user, id, r.file)
    \/ \E p \in Procs : UploadMint(p)
    \/ \E p \in Procs : UploadResume(p)
    \/ Work

SpecJobs == Init /\ [][NextJobs]_vars

(***************************************************************************)
(* The idempotency cache over time: updates under the key k1 that succeed  *)
(* and that fail on the role, on validation, on the version, on the        *)
(* finalized rule, on a duplicate and on an absent report, the clock up to *)
(* and past the retention, and the deletions coming due.  Node runs the    *)
(* timers that are due before it takes the next request, so a request is   *)
(* handled only when no deletion is overdue.                               *)
(***************************************************************************)
CachePosts ==
    { r \in PostRequests :
          /\ r.user = Editor
          /\ r.body.ownerId = <<"u">>
          /\ r.body.title \in {<<"q">>, <<"r">>} }
CachePuts ==
    { r \in PutRequests : r.idempotencyKey = "k1" }
      \cup { [user |-> Editor, body |-> [title |-> <<"r">>],
              ifMatch |-> << >>, idempotencyKey |-> "k1"] }

RetentionInstants == {0, RetentionMinutes, RetentionMinutes + 1}

Elapse ==
    /\ \E t \in RetentionInstants : t > now /\ now' = t
    /\ Silent
    /\ UNCHANGED <<reports, businessKeyIndex, idempotencyCache, timers,
                   jobQueue, downloadTokens, files, minted, tokenLog, proc>>

NoneOverdue == \A timer \in timers : timer.at >= now

NextCache ==
    \/ \E p \in Procs, r \in CachePosts :
            /\ NoneOverdue
            /\ Cardinality(DOMAIN reports) < MaxReports
            /\ Room(2)
            /\ PostReport(p, r.user, r.body)
    \/ \E p \in Procs, id \in 1..MaxReports, r \in CachePuts :
            /\ NoneOverdue
            /\ Room(1)
            /\ PutStart(p, r.user, id, r.body, r.ifMatch, r.idempotencyKey)
    \/ \E p \in Procs : PutResume(p)
    \/ \E p \in Procs : PutFinish(p)
    \/ \E timer \in timers : TimerFires(timer)
    \/ Elapse

SpecCache == Init /\ [][NextCache]_vars

(***************************************************************************)
(* Properties of the store, the service and the handlers.                  *)
(***************************************************************************)
\* The (lower-cased title, ownerId) pair of a report or of a create input
KeyPair(r) == <<toLowerCase(r.title), r.ownerId>>

\* The pair of the input is that of a live report
Duplicates(input) ==
    \E i \in DOMAIN reports : KeyPair(reports[i]) = KeyPair(input)

UniqueKeys ==
    \A i, j \in DOMAIN reports :
        i # j => KeyPair(reports[i]) # KeyPair(reports[j])

\* Handler p leaves the await of getReportById in updateReport in this step
PutResumes(p) == proc[p].pc = "put_read" /\ proc'[p].pc # "put_read"

\* ... and its updateReport writes the store
PutSucceeds(p) == proc[p].pc = "put_read" /\ proc'[p].pc = "put_written"

\* Handler p's addAttachment writes the store in this step
UploadSucceeds(p) ==
    /\ proc[p].pc = "upload_read"
    /\ proc'[p].pc = "idle"
    /\ last'.statusCode = 201

\* The expected version of handler p's update is absent or is the version
\* of the report it read
VersionMatches(p) ==
    proc[p].version = << >> \/ proc[p].version[1] = proc[p].existing.version

\* The update moves report id onto the pair of another live report
KeyTaken(id, updates) ==
    /\ Truthy(updates, "title")
    /\ \E j \in DOMAIN reports \ {id} :
           KeyPair(reports[j]) = <<toLowerCase(updates.title), reports[id].ownerId>>

IsPrefix(s, t) == Len(s) <= Len(t) /\ SubSeq(t, 1, Len(s)) = s

LastOf(s) == s[Len(s)]

----------------------------------------------------------------------------
\* C1: after every step no two live reports have the same (lower-cased
\* title, ownerId) pair (the initial store is empty), and a valid create by
\* an editor whose pair is that of a live report is answered 409
\* DUPLICATE_REPORT and leaves the report map and the business-key index as
\* they were.
DuplicateCreateFails ==
    \A r \in PostRequests :
        (/\ r.user.role = "editor"
         /\ CreateReportSchema(r.body).ok
         /\ Duplicates(r.body)
         /\ \E p \in Procs : PostReport(p, r.user, r.body))
        => /\ last' = AppError(409, "DUPLICATE_REPORT")
           /\ UNCHANGED <<reports, businessKeyIndex>>

C1_Uniqueness == [][UniqueKeys' /\ DuplicateCreateFails]_vars

\* A duplicate create has just been refused: with one live report, a
\* DUPLICATE_REPORT cannot come from an update
C1_Witness ==
    /\ last = AppError(409, "DUPLICATE_REPORT")
    /\ Cardinality(DOMAIN reports) = 1

----------------------------------------------------------------------------
\* C2: updateReport reads the report as stored at the call, at version V,
\* and when its expected version differs from V it ends with 409
\* VERSION_CONFLICT carrying currentVersion = V and providedVersion = the
\* expected version, the report map and the business-key index unchanged.
StaleVersionRejected ==
    \A p \in Procs :
        /\ (proc[p].pc = "idle" /\ proc'[p].pc = "put_read")
           => proc'[p].existing = reports[proc'[p].id]
        /\ (PutResumes(p) /\ ~VersionMatches(p))
           => /\ last' = AppErrorWith(409, "VERSION_CONFLICT",
                             [currentVersion |-> proc[p].existing.version,
                              providedVersion |-> proc[p].version[1]])
              /\ UNCHANGED <<reports, businessKeyIndex>>

C2_VersionConflict == [][StaleVersionRejected]_vars

\* An update expecting version 2 has just been refused on a report at 3
C2_Witness ==
    /\ last = AppErrorWith(409, "VERSION_CONFLICT",
                           [currentVersion |-> 3, providedVersion |-> 2])
    /\ \E id \in DOMAIN reports : reports[id].version = 3

----------------------------------------------------------------------------
\* C3: of two updateReport calls in flight on the same report with the same
\* expected version, at most one writes the store: never have two handlers
\* both written the same report under the same expected version.
C3_ExactlyOneSucceeds ==
    \A p, q \in Procs :
        (/\ p # q
         /\ proc[p].pc = "put_written"
         /\ proc[q].pc = "put_written"
         /\ proc[p].id = proc[q].id
         /\ proc[p].version # << >>)
        => proc[p].version # proc[q].version

----------------------------------------------------------------------------
\* C4: no effect of a successful mutation is lost: the version of a report
\* is 1 plus the number of audit entries and attachments it holds (each
\* write raises the version by one and adds one audit entry or one
\* attachment, so two writes raise it by 2 and leave both effects).
C4_NoLostUpdate ==
    \A id \in DOMAIN reports :
        reports[id].version =
            1 + Len(reports[id].auditLog) + Len(reports[id].attachments)

----------------------------------------------------------------------------
\* C5: when the report that an editor's updateReport read is finalized and
\* the expected version, if any, matches: without force = true the call
\* ends with 400 FORCE_REQUIRED and the store is unchanged (no mutation, no
\* audit entry); with force = true it writes the store and the last entry
\* of the audit log written has metadata.forced = TRUE, unless the new
\* title belongs to another live report of the owner (409 DUPLICATE_REPORT,
\* store unchanged).
FinalizedRule ==
    \A p \in Procs :
        (/\ PutResumes(p)
         /\ proc[p].existing.status = "finalized"
         /\ proc[p].user.role = "editor"
         /\ VersionMatches(p))
        => IF ~Forced(proc[p].updates)
           THEN /\ last' = AppError(400, "FORCE_REQUIRED")
                /\ UNCHANGED <<reports, businessKeyIndex>>
           ELSE IF KeyTaken(proc[p].id, proc[p].updates)
           THEN /\ last' = AppError(409, "DUPLICATE_REPORT")
                /\ UNCHANGED <<reports, businessKeyIndex>>
           ELSE /\ PutSucceeds(p)
                /\ LET log == reports'[proc[p].id].auditLog
                   IN  /\ Len(log) = Len(proc[p].existing.auditLog) + 1
                       /\ LastOf(log).metadata.forced = TRUE

C5_FinalizedRule == [][FinalizedRule]_vars

\* A forced update of a finalized report is the last entry of its audit
\* log, and an update without force has just been refused
C5_Witness ==
    /\ last = AppError(400, "FORCE_REQUIRED")
    /\ \E id \in DOMAIN reports :
           LET e == LastOf(reports[id].auditLog)
           IN  /\ e.action = "UPDATED"
               /\ e.metadata.forced
               /\ e.before.status = "finalized"

----------------------------------------------------------------------------
\* C6: a report whose stored status is finalized is changed by no step
\* other than the store write of an updateReport with force = true.
FinalizedProtected ==
    \A id \in DOMAIN reports :
        (reports[id].status = "finalized" /\ reports'[id] # reports[id])
        => \E p \in Procs :
               /\ PutSucceeds(p)
               /\ proc[p].id = id
               /\ Forced(proc[p].updates)

C6_FinalizedProtected == [][FinalizedProtected]_vars

----------------------------------------------------------------------------
\* C7: every create, update and attachment-upload request of a reader is
\* answered 403 FORBIDDEN and leaves the store, the token map, the
\* idempotency cache and the stored files unchanged, whatever the report,
\* the force flag and the expected version.
ReaderRejected ==
    \A p \in Procs :
        (\/ \E r \in PostRequests :
                r.user.role = "reader" /\ PostReport(p, r.user, r.body)
         \/ \E id \in 1..MaxReports, r \in PutRequests :
                /\ r.user.role = "reader"
                /\ PutStart(p, r.user, id, r.body, r.ifMatch, r.idempotencyKey)
         \/ \E id \in 1..MaxReports, r \in UploadRequests :
                r.user.role = "reader" /\ UploadStart(p, r.user, id, r.file))
        => /\ last' = AppError(403, "FORBIDDEN")
           /\ UNCHANGED <<reports, businessKeyIndex, downloadTokens,
                          idempotencyCache, files>>

C7_ReaderNeverMutates == [][ReaderRejected]_vars

\* A reader has just been refused while a finalized report is stored and
\* the idempotency key its request carries is cached
C7_Witness ==
    /\ last = AppError(403, "FORBIDDEN")
    /\ "k1" \in DOMAIN idempotencyCache
    /\ \E id \in DOMAIN reports : reports[id].status = "finalized"

----------------------------------------------------------------------------
\* C8: a report stays stored and its version never decreases; a step that
\* changes a report raises its version by exactly 1; the store write of a
\* successful updateReport or addAttachment raises the version of its
\* report by exactly 1; a step answered with an error leaves every report
\* as it was.
VersionSteps ==
    /\ \A id \in DOMAIN reports :
           /\ id \in DOMAIN reports'
           /\ reports'[id].version >= reports[id].version
           /\ reports'[id] # reports[id]
              => reports'[id].version = reports[id].version + 1
    /\ \A p \in Procs :
           (PutSucceeds(p) \/ UploadSucceeds(p))
           => reports'[proc[p].id].version = reports[proc[p].id].version + 1
    /\ last'.statusCode >= 400 => UNCHANGED reports

C8_VersionMonotonic == [][VersionSteps]_vars

\* A report created, updated and given an attachment stands at version 4
C8_Witness ==
    \E id \in DOMAIN reports :
        /\ reports[id].version = 4
        /\ Len(reports[id].auditLog) = 2
        /\ Len(reports[id].attachments) = 1

----------------------------------------------------------------------------
\* C9: the report a successful create returns is at version 1, with status
\* draft when the body gives none, and the report a successful updateReport
\* returns is at version 1 + N after N updates (one CREATED and N UPDATED
\* audit entries, no attachment).
VersionCountsUpdates ==
    /\ \A r \in PostRequests :
           (/\ last'.statusCode = 201
            /\ \E p \in Procs : PostReport(p, r.user, r.body))
           => LET created == reports'[NewReportId]
              IN  /\ created.version = 1
                  /\ "status" \notin DOMAIN r.body => created.status = "draft"
    /\ \A p \in Procs :
           (PutSucceeds(p) /\ Len(proc'[p].updated.attachments) = 0)
           => proc'[p].updated.version = Len(proc'[p].updated.auditLog)

C9_VersionIsOnePlusUpdates == [][VersionCountsUpdates]_vars

----------------------------------------------------------------------------
\* C10: across every step the audit log of a report is a prefix of its
\* audit log afterwards; a successful create leaves exactly one entry, with
\* action CREATED and after = the creation input; a successful updateReport
\* appends exactly one entry, with action UPDATED, before = the title,
\* status and description stored before the write and after = the update
\* payload.
AuditAppendOnly ==
    /\ \A id \in DOMAIN reports :
           IsPrefix(reports[id].auditLog, reports'[id].auditLog)
    /\ \A r \in PostRequests :
           (/\ last'.statusCode = 201
            /\ \E p \in Procs : PostReport(p, r.user, r.body))
           => LET log == reports'[NewReportId].auditLog
              IN  /\ Len(log) = 1
                  /\ log[1].action = "CREATED"
                  /\ log[1].after = CreateReportSchema(r.body).value
    /\ \A p \in Procs :
           PutSucceeds(p)
           => LET old == reports[proc[p].id]
                  log == reports'[proc[p].id].auditLog
                  e == LastOf(log)
              IN  /\ Len(log) = Len(old.auditLog) + 1
                  /\ e.action = "UPDATED"
                  /\ e.before.title = old.title
                  /\ e.before.status = old.status
                  /\ e.before.description = Get(old, "description")
                  /\ e.after = proc[p].updates

C10_AuditAppendOnly == [][AuditAppendOnly]_vars

----------------------------------------------------------------------------
\* C11: a step that raises the version of a stored report lengthens its
\* audit log, and a report that a step creates holds an audit entry: no
\* change of a stored report goes without an audit entry.
AuditTrailComplete ==
    /\ \A id \in DOMAIN reports :
           reports'[id].version > reports[id].version
           => Len(reports'[id].auditLog) > Len(reports[id].auditLog)
    /\ \A id \in DOMAIN reports' \ DOMAIN reports :
           Len(reports'[id].auditLog) >= 1

C11_AuditTrailComplete == [][AuditTrailComplete]_vars

----------------------------------------------------------------------------
\* C12: when updateReport reaches its store write (the expected version
\* matches and the finalized rule lets it through): if the new title puts
\* the report on the (lower-cased title, ownerId) pair of another live
\* report, the call ends with 409 DUPLICATE_REPORT and the report map and
\* the business-key index are unchanged; otherwise it writes the store, and
\* when the new title differs from the stored one in letter case only the
\* title is replaced and the index is unchanged.
ReachesWrite(p) ==
    /\ VersionMatches(p)
    /\ proc[p].existing.status = "finalized"
       => proc[p].user.role = "editor" /\ Forced(proc[p].updates)

DuplicateUpdateRejected ==
    \A p \in Procs :
        (PutResumes(p) /\ ReachesWrite(p))
        => LET id == proc[p].id
               updates == proc[p].updates
           IN  IF KeyTaken(id, updates)
               THEN /\ last' = AppError(409, "DUPLICATE_REPORT")
                    /\ UNCHANGED <<reports, businessKeyIndex>>
               ELSE /\ PutSucceeds(p)
                    /\ (/\ Truthy(updates, "title")
                        /\ toLowerCase(updates.title) = toLowerCase(reports[id].title))
                       => /\ reports'[id].title = updates.title
                          /\ reports'[id].version = reports[id].version + 1
                          /\ UNCHANGED businessKeyIndex

C12_DuplicateUpdateRejected == [][DuplicateUpdateRejected]_vars

\* An update onto the pair of the other stored report has just been
\* refused: with MaxReports reports stored no create is taken, so the
\* refusal is that of an update
C12_Witness ==
    /\ last = AppError(409, "DUPLICATE_REPORT")
    /\ Cardinality(DOMAIN reports) = MaxReports
    /\ \A id \in DOMAIN reports : reports[id].version = 2

----------------------------------------------------------------------------
\* C15: a PUT by an editor whose Idempotency-Key has a cached response is
\* answered 200 with that response, whatever report id and body it names,
\* and changes nothing: the report map, the business-key index, the cache,
\* the tokens and the files are as before and no handler is left in flight
\* (updateReport, which writes the store and enqueues the job, is not
\* called).
ReplayReturnsCached ==
    \A id \in 1..MaxReports, r \in PutRequests :
        (/\ r.user.role = "editor"
         /\ r.idempotencyKey # Undefined
         /\ r.idempotencyKey \in DOMAIN idempotencyCache
         /\ \E p \in Procs :
                PutStart(p, r.user, id, r.body, r.ifMatch, r.idempotencyKey))
        => /\ last' = [statusCode |-> 200,
                       body |-> idempotencyCache[r.idempotencyKey]]
           /\ UNCHANGED <<reports, businessKeyIndex, idempotencyCache,
                          downloadTokens, files, proc>>

----------------------------------------------------------------------------
\* C16: no stored report has a force field, after every step; and the audit
\* entry that a successful updateReport with a force flag in its payload
\* appends has the payload as given, force included, in `after`.
ForceNotPersisted ==
    /\ \A id \in DOMAIN reports' : "force" \notin DOMAIN reports'[id]
    /\ \A p \in Procs :
           (PutSucceeds(p) /\ "force" \in DOMAIN proc[p].updates)
           => LET e == LastOf(reports'[proc[p].id].auditLog)
              IN  /\ e.after = proc[p].updates
                  /\ e.after.force = proc[p].updates.force

C16_ForceNotPersisted == [][ForceNotPersisted]_vars

\* A stored report whose latest audit entry records a forced update of the
\* title, the report itself holding the new title and no force field
C16_Witness ==
    \E id \in DOMAIN reports :
        LET e == LastOf(reports[id].auditLog)
        IN  /\ e.action = "UPDATED"
            /\ "force" \in DOMAIN e.after
            /\ e.after.force
            /\ reports[id].title = e.after.title
            /\ "force" \notin DOMAIN reports[id]

----------------------------------------------------------------------------
\* C19: no attachment record on a stored report holds a download token:
\* the token is given in the response to the upload only.
C19_TokenNotStored ==
    \A id \in DOMAIN reports :
        \A i \in 1..Len(reports[id].attachments) :
            "downloadToken" \notin DOMAIN reports[id].attachments[i]

----------------------------------------------------------------------------
\* The token of a download request was minted and has not expired, by the
\* log of the tokens generated
Minted(token) == token # << >> /\ token[1] \in DOMAIN tokenLog
Unexpired(token) == ~(tokenLog[token[1]].expiresAt < now)

\* The attachments that (id, attachmentId) names
Named(id, attachmentId) ==
    IF id \notin DOMAIN reports THEN {}
    ELSE { a \in { reports[id].attachments[i] :
                     i \in 1..Len(reports[id].attachments) } :
             a.id = attachmentId }

\* The step answers with the bytes of a file
Served == last'.statusCode = 200 /\ "file" \in DOMAIN last'

\* In every state the download that presents a valid token for an
\* attachment of another storage key is answered 403 FORBIDDEN
OtherKeyForbidden ==
    \A token \in DownloadTokens, id \in 1..MaxReports, attachmentId \in 1..MaxFiles :
        (/\ Minted(token) /\ Unexpired(token)
         /\ \E a \in Named(id, attachmentId) :
                a.storageKey # tokenLog[token[1]].storageKey)
        => ~ENABLED (/\ Download(token, id, attachmentId)
                     /\ last' # AppError(403, "FORBIDDEN"))

\* C13: a download request is answered with bytes only when its token was
\* minted and has not expired and the storage key the token was minted for
\* is the storageKey of the attachment that (report id, attachment id)
\* names, and the bytes are those stored under that key; a request whose
\* token is valid but was minted for another storage key than that of the
\* attachment it names is answered 403 FORBIDDEN, which carries no bytes.
TokenScoped ==
    \A token \in DownloadTokens, id \in 1..MaxReports, attachmentId \in 1..MaxFiles :
        (Served /\ Download(token, id, attachmentId))
           => /\ Minted(token) /\ Unexpired(token)
              /\ \E a \in Named(id, attachmentId) :
                     /\ a.storageKey = tokenLog[token[1]].storageKey
                     /\ last'.file = a.storageKey
                     /\ last'.filename = a.originalName

C13_TokenScoped == [][TokenScoped]_vars /\ []OtherKeyForbidden

\* A download has just been refused as forbidden while the one stored
\* report holds two attachments, each with its own key and token: the
\* token of one was presented for the other
C13_Witness ==
    /\ last = AppError(403, "FORBIDDEN")
    /\ Cardinality(DOMAIN reports) = 1
    /\ \E id \in DOMAIN reports :
           /\ Len(reports[id].attachments) = 2
           /\ reports[id].attachments[1].storageKey
                  # reports[id].attachments[2].storageKey
    /\ Cardinality(DOMAIN downloadTokens) = 2

----------------------------------------------------------------------------
\* C18: across every step the attachments of a report are a prefix of its
\* attachments afterwards; the store write of a successful addAttachment
\* leaves the stored list with the given attachment appended and the
\* version raised by 1; addAttachment on an absent report ends with 404
\* REPORT_NOT_FOUND and changes no report.
AttachmentsAppended ==
    /\ \A id \in DOMAIN reports :
           IsPrefix(reports[id].attachments, reports'[id].attachments)
    /\ \A p \in Procs :
           /\ UploadSucceeds(p)
              => LET old == reports[proc[p].id]
                     new == reports'[proc[p].id]
                 IN  /\ new.attachments =
                            Append(old.attachments, proc[p].attachment)
                     /\ new.version = old.version + 1
           /\ (/\ proc[p].pc = "upload_stored"
               /\ proc'[p].pc # "upload_stored"
               /\ proc[p].id \notin DOMAIN reports)
              => /\ last' = AppError(404, "REPORT_NOT_FOUND")
                 /\ UNCHANGED reports

C18_AttachmentsAppended == [][AttachmentsAppended]_vars

----------------------------------------------------------------------------
\* The token was minted and the clock has passed its expiry, by the log of
\* the tokens generated, after the step
ExpiredAfter(t) == t \in DOMAIN tokenLog' /\ tokenLog'[t].expiresAt < now'

\* C14: after every step validateDownloadToken returns the storage key a
\* token is bound to if the token was minted and has not expired, and null
\* otherwise; a download with a token that was never minted or has expired
\* is answered 401 INVALID_TOKEN and leaves the token out of the token map,
\* and a download with a minted, unexpired token is not; a minted token
\* that is out of the map stays out and an expired token stays expired,
\* whatever is minted later.
TokenExpiry ==
    /\ \A t \in 0..minted' :
           validateDownloadToken(downloadTokens', t, now').value
               = IF t \in DOMAIN tokenLog' /\ ~ExpiredAfter(t)
                 THEN <<tokenLog'[t].storageKey>> ELSE << >>
    /\ \A t \in DOMAIN tokenLog :
           /\ t \notin DOMAIN downloadTokens => t \notin DOMAIN downloadTokens'
           /\ tokenLog[t].expiresAt < now => ExpiredAfter(t)
    /\ UNCHANGED <<proc, minted, now>> =>
       \A token \in DownloadTokens \ {<< >>}, id \in TokenReports, attachmentId \in 1..MaxFiles :
           Download(token, id, attachmentId)
           => IF Minted(token) /\ Unexpired(token)
              THEN last' # AppError(401, "INVALID_TOKEN")
              ELSE /\ last' = AppError(401, "INVALID_TOKEN")
                   /\ token[1] \notin DOMAIN downloadTokens'

C14_TokenExpiry == [][TokenExpiry]_vars

\* A download has just been refused for its token while the first token
\* minted has expired and is out of the token map and a token minted after
\* that expiry is in the map
C14_Witness ==
    /\ last = AppError(401, "INVALID_TOKEN")
    /\ 1 \in DOMAIN tokenLog
    /\ tokenLog[1].expiresAt < now
    /\ 1 \notin DOMAIN downloadTokens
    /\ \E u \in DOMAIN downloadTokens :
           tokenLog[u].expiresAt > tokenLog[1].expiresAt + TokenTtlMinutes

----------------------------------------------------------------------------
\* C17: the store write of a successful updateReport leaves the entries of
\* the report equal to the entries of the payload when the payload has
\* entries (also an empty list, also entries with the ids of stored ones)
\* and equal to the entries stored before the write when it has none; the
\* same for comments.
ListsReplaced ==
    \A p \in Procs :
        PutSucceeds(p)
        => LET old == reports[proc[p].id]
               new == reports'[proc[p].id]
               updates == proc[p].updates
           IN  /\ new.entries = IF "entries" \in DOMAIN updates
                                THEN updates.entries ELSE old.entries
               /\ new.comments = IF "comments" \in DOMAIN updates
                                 THEN updates.comments ELSE old.comments

C17_ListsReplaced == [][ListsReplaced]_vars

\* A report that held E1 and E2 and was then updated with E4 alone, which
\* has the id of E1, holds E4 alone; its comments, set by an update in
\* between, are still there
C17_Witness ==
    \E id \in DOMAIN reports :
        LET log == reports[id].auditLog
        IN  /\ Len(log) = 4
            /\ log[2].after = [entries |-> <<E1, E2>>]
            /\ log[3].after = [comments |-> <<K1>>]
            /\ log[4].after = [entries |-> <<E4>>]
            /\ reports[id].entries = <<E4>>
            /\ reports[id].comments = <<K1>>

----------------------------------------------------------------------------
\* The elements of the list at the 0-based positions lo .. hi - 1
Window(list, lo, hi) ==
    LET from == IF lo < 0 THEN 0 ELSE lo
        to == IF hi > Len(list) THEN Len(list) ELSE hi
    IN  IF from >= to THEN << >> ELSE SubSeq(list, from + 1, to)

\* C20: a read whose response has the entries projection: with both page
\* and size the projection is {data, pagination}, data being the positions
\* page * size .. page * size + size - 1 of the filtered and sorted list,
\* total its length and totalPages = ceil(total / size), and data is empty
\* for a page below 0 or not below totalPages; with page or size missing
\* the projection is the filtered and sorted list itself.
PageProjection ==
    \A user \in {Reader, Editor}, id \in DOMAIN reports, query \in Queries :
        (/\ query.view # "summary"
         /\ query.include = << >> \/ includes(query.include, "entries")
         /\ GetReport(user, id, query))
        => LET list == filterAndPaginateEntries(
                           reports[id].entries, << >>, << >>, query.sortBy,
                           query.filterPriority).array
               out == last'.body.entries
           IN  IF query.page # << >> /\ query.size # << >>
               THEN LET page == query.page[1]
                        size == query.size[1]
                        totalPages == ceil(Len(list), size)
                    IN  /\ out.pagination =
                               [page |-> page, size |-> size,
                                total |-> Len(list), totalPages |-> totalPages]
                        /\ out.data = Window(list, page * size, page * size + size)
                        /\ (page < 0 \/ page >= totalPages) => out.data = << >>
               ELSE out = [array |-> list]

C20_PageProjection == [][PageProjection]_vars

----------------------------------------------------------------------------
\* C28: an upload by an editor whose file is larger than the maximum is
\* answered 400 FILE_TOO_LARGE, and one whose file is within the maximum
\* and of a mime type outside the allow-list 400 INVALID_FILE_TYPE; either
\* way no file is written, no token is minted, no report is changed and no
\* handler is left in flight.
BadUploadRejected ==
    \A id \in 1..MaxReports, r \in UploadRequests :
        (/\ r.user.role = "editor"
         /\ r.file # << >>
         /\ r.file.size > MaxFileSize \/ r.file.mimetype \notin allowedMimeTypes
         /\ \E p \in Procs : UploadStart(p, r.user, id, r.file))
        => /\ last' = IF r.file.size > MaxFileSize
                      THEN AppError(400, "FILE_TOO_LARGE")
                      ELSE AppError(400, "INVALID_FILE_TYPE")
           /\ UNCHANGED <<files, downloadTokens, minted, tokenLog, reports,
                          businessKeyIndex, proc>>

C28_BadUploadRejected == [][BadUploadRejected]_vars

\* An upload has just been refused for its size while a report is stored:
\* there is no file, no token and no attachment
C28_Witness ==
    /\ last = AppError(400, "FILE_TOO_LARGE")
    /\ files = {}
    /\ minted = 0
    /\ downloadTokens = EmptyMap
    /\ DOMAIN reports # {}
    /\ \A id \in DOMAIN reports : reports[id].attachments = << >>

----------------------------------------------------------------------------
\* C30: updateReport tests the existence of the report, then the expected
\* version, then the finalized rule.  An update by an editor, valid and not
\* a replay, of an absent report is answered 404 REPORT_NOT_FOUND whatever
\* its expected version and force flag, and nothing is read or written; an
\* updateReport whose expected version differs from the version it read is
\* answered 409 VERSION_CONFLICT, also when the report is finalized and the
\* payload has no force flag; either way the store is unchanged and the
\* handler ends (no audit entry, no store write, no job).
ChecksInOrder ==
    /\ \A id \in 1..MaxReports, r \in PutRequests :
           (/\ r.user.role = "editor"
            /\ ~CacheHit(idempotencyCache, r.idempotencyKey)
            /\ UpdateReportSchema(r.body).ok
            /\ id \notin DOMAIN reports
            /\ \E p \in Procs :
                   PutStart(p, r.user, id, r.body, r.ifMatch, r.idempotencyKey))
           => /\ last' = AppError(404, "REPORT_NOT_FOUND")
              /\ UNCHANGED <<reports, businessKeyIndex, idempotencyCache, proc>>
    /\ \A p \in Procs :
           (PutResumes(p) /\ ~VersionMatches(p))
           => /\ last'.statusCode = 409
              /\ last'.code = "VERSION_CONFLICT"
              /\ proc'[p] = Idle
              /\ UNCHANGED <<reports, businessKeyIndex, idempotencyCache>>

C30_ChecksInOrder == [][ChecksInOrder]_vars

\* An update without force that expected version 2 has just been refused
\* with a version conflict on a finalized report at version 3
C30_Witness ==
    /\ last = AppErrorWith(409, "VERSION_CONFLICT",
                           [currentVersion |-> 3, providedVersion |-> 2])
    /\ Cardinality(DOMAIN reports) = 1
    /\ \A id \in DOMAIN reports :
           reports[id].status = "finalized" /\ reports[id].version = 3
    /\ \A p \in Procs : proc[p].pc = "idle"

----------------------------------------------------------------------------
\* C29: a download that presents the token of the attachment it names is
\* answered with the bytes of that attachment whenever no more than
\* TokenTtlMinutes have passed since the attachment and its token were
\* made, whoever sends it and however many downloads went before, and is
\* answered 401 INVALID_TOKEN later than that; a download that is answered
\* with bytes leaves the token map as it was.
TokenReusable ==
    UNCHANGED <<proc, minted, now>> =>
    /\ Served => downloadTokens' = downloadTokens
    /\ \A token \in DownloadTokens \ {<< >>}, id \in TokenReports, attachmentId \in 1..MaxFiles :
           \A a \in Named(id, attachmentId) :
               (a.downloadToken = token[1] /\ Download(token, id, attachmentId))
               => IF now <= a.uploadedAt + TokenTtlMinutes
                  THEN /\ Served
                       /\ last'.file = a.storageKey
                       /\ token[1] \in DOMAIN downloadTokens'
                  ELSE last' = AppError(401, "INVALID_TOKEN")

C29_TokenReusable == [][TokenReusable]_vars

\* Bytes have just been served TokenTtlMinutes after the attachment was
\* made, and its token is still in the token map
C29_Witness ==
    /\ last.statusCode = 200
    /\ "file" \in DOMAIN last
    /\ now = TokenTtlMinutes
    /\ \E id \in DOMAIN reports :
           \E i \in 1..Len(reports[id].attachments) :
               LET a == reports[id].attachments[i]
               IN  /\ a.uploadedAt = 0
                   /\ a.storageKey = last.file
                   /\ a.downloadToken \in DOMAIN downloadTokens

----------------------------------------------------------------------------
\* The stored reports whose (lower-cased title, ownerId) pair is the pair
\* given, other than the report `self`
SamePair(title, ownerId, self) ==
    { i \in DOMAIN reports \ self :
          KeyPair(reports[i]) = <<toLowerCase(title), ownerId>> }

\* C26: a create is refused as a duplicate only when a stored report has
\* the lower-cased title and the ownerId of the report to create, and an
\* update only when another stored report has the lower-cased title and the
\* ownerId the update leads to, also for titles and owners that contain the
\* ':' of the business key.
DuplicateOnlyOnEqualPair ==
    /\ \A report \in StoreReports :
           (DbCreate(report) /\ last' = AppError(409, "DUPLICATE_REPORT"))
           => SamePair(report.title, report.ownerId, {}) # {}
    /\ \A id \in DOMAIN reports, updates \in StoreUpdates :
           (DbUpdate(id, updates) /\ last' = AppError(409, "DUPLICATE_REPORT"))
           => SamePair(IF Truthy(updates, "title")
                       THEN updates.title ELSE reports[id].title,
                       IF Truthy(updates, "ownerId")
                       THEN updates.ownerId ELSE reports[id].ownerId,
                       {id}) # {}

C26_DuplicateOnlyOnEqualPair == [][DuplicateOnlyOnEqualPair]_vars

----------------------------------------------------------------------------
\* The keys that update sets itself
Stamped == {"id", "createdAt", "updatedAt", "version"}

\* C27: an update that the store accepts keeps the id and the createdAt of
\* the report, also when the payload names them, raises the version by one,
\* sets updatedAt to the time of the call, gives every other key of the
\* payload the value of the payload, leaves every other key of the report
\* as it was, and leaves every other report as it was.
UpdateFrame ==
    \A id \in DOMAIN reports, updates \in StoreUpdates :
        ("returned" \in DOMAIN last' /\ DbUpdate(id, updates))
        => /\ DOMAIN reports' = DOMAIN reports
           /\ \A other \in DOMAIN reports \ {id} : reports'[other] = reports[other]
           /\ last'.returned = reports'[id]
           /\ DOMAIN reports'[id] = DOMAIN reports[id] \cup DOMAIN updates
           /\ reports'[id].id = reports[id].id
           /\ reports'[id].createdAt = reports[id].createdAt
           /\ reports'[id].version = reports[id].version + 1
           /\ reports'[id].updatedAt = now
           /\ \A f \in DOMAIN updates \ Stamped : reports'[id][f] = updates[f]
           /\ \A f \in DOMAIN reports[id] \ (DOMAIN updates \cup Stamped) :
                  reports'[id][f] = reports[id][f]

C27_UpdateFrame == [][UpdateFrame]_vars

\* An update whose payload named an id, a createdAt and a version has just
\* been accepted on the first of two stored reports: the report has the id
\* and the createdAt it had and the next version
C27_Witness ==
    /\ "returned" \in DOMAIN last
    /\ Cardinality(DOMAIN reports) = 2
    /\ last.returned = reports[1]
    /\ reports[1].status = "archived"
    /\ reports[1].id = 1
    /\ reports[1].createdAt = 0
    /\ reports[1].version = 2
    /\ reports[2].version = 1

----------------------------------------------------------------------------
\* The entries of a list whose priority is the value asked for, in the
\* order of the list; the whole list when no value is asked for
Matching(entries, value) == { i \in DOMAIN entries : entries[i].priority = value }
Kept(entries, value) ==
    IF value = "undefined" THEN entries
    ELSE LET S == Matching(entries, value)
         IN  [k \in 1..Cardinality(S) |->
                 entries[CHOOSE i \in S : Cardinality({ j \in S : j < i }) = k - 1]]

Count(list, e) == Cardinality({ i \in DOMAIN list : list[i] = e })
IsPermutation(a, b) ==
    /\ Len(a) = Len(b)
    /\ \A i \in DOMAIN b : Count(a, b[i]) = Count(b, b[i])

\* critical, high, medium, low as 1 to 4
Severity(priority) ==
    CHOOSE k \in 1..4 : <<"critical", "high", "medium", "low">>[k] = priority
\* The place of an entry in a list of different entries
IndexIn(list, e) == CHOOSE i \in DOMAIN list : list[i] = e

\* C21: a read of a report without view, include, page and size answers
\* with a permutation of the entries that the filter keeps: under
\* sortBy=priority no entry comes after one of lower severity rank
\* (critical, high, medium, low) and entries of equal priority are in
\* their stored order; under sortBy=recency or timestamp no entry comes
\* after one of an earlier timestamp; under any other sortBy or none the
\* entries are in their stored order.  The read leaves the stored reports
\* as they are.
SortedAsAsked ==
    /\ reports' = reports
    /\ \A query \in SortQueries :
           GetReport(Reader, 1, query) =>
           LET kept == Kept(reports[1].entries, query.filterPriority)
               out == last'.body.entries.array
           IN  /\ IsPermutation(out, kept)
               /\ CASE query.sortBy = "priority" ->
                         \A i, j \in DOMAIN out :
                             i < j =>
                             \/ Severity(out[i].priority) < Severity(out[j].priority)
                             \/ /\ out[i].priority = out[j].priority
                                /\ IndexIn(kept, out[i]) < IndexIn(kept, out[j])
                    [] query.sortBy \in {"recency", "timestamp"} ->
                         \A i, j \in DOMAIN out :
                             i < j => out[i].timestamp >= out[j].timestamp
                    [] OTHER -> out = kept

C21_SortedAsAsked == [][SortedAsAsked]_vars

\* A read sorted by priority has just answered critical, high, high in that
\* order from a report that stores the second of the high entries first,
\* the critical entry next and the first of the high entries last
C21_Witness ==
    /\ reports[1].entries = <<E4, E2, E3>>
    /\ last.statusCode = 200
    /\ "entries" \in DOMAIN last.body
    /\ "array" \in DOMAIN last.body.entries
    /\ last.body.entries.array = <<E2, E4, E3>>

----------------------------------------------------------------------------
\* The queries whose answer has the entries and that name a priority
FilterQueries ==
    { q \in ViewQueries :
          /\ q.view # "summary"
          /\ q.filterPriority # "undefined"
          /\ q.include = << >> \/ \E i \in DOMAIN q.include : q.include[i] = "entries" }

\* C22: a read that names a filterPriority answers, without page and size,
\* with exactly the stored entries of that priority, in their stored order
\* when no sort is asked for and as a permutation of them otherwise; with
\* page and size the total is the number of stored entries of that
\* priority and the page holds only such entries; when no stored entry has
\* the priority the list is empty and the total 0.
FilterExact ==
    \A query \in FilterQueries :
        GetReport(Reader, 1, query) =>
        LET stored == reports[1].entries
            kept == Kept(stored, query.filterPriority)
            out == last'.body.entries
        IN  IF query.page = << >>
            THEN /\ IsPermutation(out.array, kept)
                 /\ query.sortBy \in {"undefined", "title"} => out.array = kept
                 /\ Matching(stored, query.filterPriority) = {} => out.array = << >>
            ELSE /\ out.pagination.total
                        = Cardinality(Matching(stored, query.filterPriority))
                 /\ \A i \in DOMAIN out.data :
                        /\ out.data[i].priority = query.filterPriority
                        /\ \E k \in DOMAIN stored : stored[k] = out.data[i]
                 /\ Matching(stored, query.filterPriority) = {}
                        => out.data = << >> /\ out.pagination.total = 0

C22_FilterExact == [][FilterExact]_vars

\* A read filtered by medium has just answered an empty page and the total
\* 0 from a report that stores a low and a high entry
C22_Witness ==
    /\ reports[1].entries = <<E1, E3>>
    /\ last.statusCode = 200
    /\ "entries" \in DOMAIN last.body
    /\ last.body.entries
           = [data |-> << >>,
              pagination |-> [page |-> 1, size |-> 1, total |-> 0,
                              totalPages |-> 0]]

----------------------------------------------------------------------------
BaseKeys == {"id", "title", "status", "ownerId", "createdAt", "updatedAt", "version"}
OptionalKeys ==
    {"entries", "comments", "attachments", "metadata", "tags", "auditLog", "metrics"}
NamedIn(include) == { include[i] : i \in DOMAIN include }

\* C23: a read without view, include, page and size answers with the
\* stored entries of the report, all of them and in their stored order,
\* whatever sortBy and filterPriority are.
FullListByDefault ==
    \A query \in SortQueries :
        GetReport(Reader, 1, query)
        => last'.body.entries.array = reports[1].entries

C23_FullListByDefault == [][FullListByDefault]_vars

----------------------------------------------------------------------------
\* C24: for a view that is not the summary and an include list that is not
\* empty, the object that getReportWithView returns has the keys id,
\* title, status, ownerId, createdAt, updatedAt and version, a key for
\* each of entries, comments, attachments, metadata, tags, auditLog and
\* metrics that the list names, and no other key; the keys it shares with
\* the stored report have the stored values.
IncludeKeys ==
    \A query \in IncludeQueries :
        LET result == getReportWithView(db, 1, query.view, query.include,
                                        query.page, query.size, query.sortBy,
                                        query.filterPriority, now).value
            named == NamedIn(query.include) \cap OptionalKeys
        IN  /\ DOMAIN result = BaseKeys \cup named
            /\ \A f \in (BaseKeys \cup named) \ {"entries", "metrics", "metadata"} :
                   result[f] = reports[1][f]
            /\ "metadata" \in named
                   => result.metadata = IF "metadata" \in DOMAIN reports[1]
                                        THEN reports[1].metadata ELSE Undefined

C24_IncludeKeys == []IncludeKeys

\* A read with include=entries,metrics,tags has just answered with the
\* seven base keys and those three, from a report that has metadata and a
\* comment
C24_Witness ==
    /\ last.statusCode = 200
    /\ DOMAIN last.body = BaseKeys \cup {"entries", "metrics", "tags"}
    /\ "metadata" \in DOMAIN reports[1]
    /\ reports[1].comments # << >>
    /\ last.body.tags = <<"t">>

----------------------------------------------------------------------------
\* C25: a read with view=summary answers with id, title, status, ownerId,
\* createdAt and updatedAt of the stored report, totalEntries (the number
\* of its entries), completedEntries (those of status completed),
\* recentActivityCount (those whose timestamp is within the seven days
\* before the clock) and highPriorityCount (those of priority high or
\* critical), and nothing else, whatever include, page, size, sortBy and
\* filterPriority are.
SummaryShape ==
    \A query \in SummaryQueries :
        GetReport(Reader, 1, query) =>
        LET report == reports[1]
            entries == report.entries
        IN  last'.body =
                [id |-> report.id, title |-> report.title,
                 status |-> report.status, ownerId |-> report.ownerId,
                 createdAt |-> report.createdAt, updatedAt |-> report.updatedAt,
                 totalEntries |-> Len(entries),
                 completedEntries |->
                     Cardinality({ i \in DOMAIN entries :
                                       entries[i].status = "completed" }),
                 recentActivityCount |->
                     Cardinality({ i \in DOMAIN entries :
                                       /\ entries[i].timestamp > now - SevenDaysMinutes
                                       /\ entries[i].timestamp <= now }),
                 highPriorityCount |->
                     Cardinality({ i \in DOMAIN entries :
                                       entries[i].priority \in {"high", "critical"} })]

C25_SummaryShape == [][SummaryShape]_vars

----------------------------------------------------------------------------
\* C31: the business-key index and the report map agree: the key of the
\* title and the ownerId of every stored report is in the index and leads
\* to the id of that report, every entry of the index leads to a stored
\* report of that key, and the index has as many entries as there are
\* stored reports, after every sequence of creates, updates, accepted or
\* refused, and deletes.
IndexAgrees ==
    /\ \A id \in DOMAIN reports :
           LET key == getBusinessKey(reports[id].title, reports[id].ownerId)
           IN  key \in DOMAIN businessKeyIndex /\ businessKeyIndex[key] = id
    /\ \A key \in DOMAIN businessKeyIndex :
           LET id == businessKeyIndex[key]
           IN  /\ id \in DOMAIN reports
               /\ getBusinessKey(reports[id].title, reports[id].ownerId) = key
    /\ Cardinality(DOMAIN businessKeyIndex) = Cardinality(DOMAIN reports)

C31_IndexAgrees == []IndexAgrees

\* A report has just been deleted, and the one report left is one whose
\* title an update has changed: the index has its new key only
C31_Witness ==
    /\ last = [deleted |-> TRUE]
    /\ Cardinality(DOMAIN reports) = 1
    /\ \E id \in DOMAIN reports :
           /\ reports[id].version = 2
           /\ reports[id].title = <<"q", ":", "u">>
           /\ reports[id].ownerId = <<"u">>
           /\ DOMAIN businessKeyIndex = {<<"q", ":", "u", ":", "u">>}

----------------------------------------------------------------------------
\* A report to create with the title and the ownerId of a stored one
Again(report) ==
    [title |-> report.title, ownerId |-> report.ownerId, status |-> "draft"]
\* The store after the step
dbAfter == [reports |-> reports', businessKeyIndex |-> businessKeyIndex']

\* C32: delete of a stored report returns true and takes the report out of
\* the map and its key out of the index, leaving the other reports and
\* keys; delete of an absent id returns false and leaves both maps; after
\* a delete a create with the title and the ownerId of the deleted report
\* is accepted, and after an update that gives a report another title a
\* create with the title it had and its ownerId is accepted.
DeleteFreesKey ==
    /\ \A id \in 1..MaxReports :
           ("deleted" \in DOMAIN last' /\ DbDelete(id)) =>
           IF id \in DOMAIN reports
           THEN /\ last' = [deleted |-> TRUE]
                /\ reports' = MapDelete(reports, id)
                /\ businessKeyIndex'
                       = MapDelete(businessKeyIndex,
                                   getBusinessKey(reports[id].title,
                                                  reports[id].ownerId))
                /\ create(dbAfter, Again(reports[id]), id, now).ok
           ELSE /\ last' = [deleted |-> FALSE]
                /\ UNCHANGED <<reports, businessKeyIndex>>
    /\ \A id \in DOMAIN reports, updates \in StoreUpdates :
           (/\ "returned" \in DOMAIN last'
            /\ Truthy(updates, "title")
            /\ toLowerCase(updates.title) # toLowerCase(reports[id].title)
            /\ DbUpdate(id, updates))
           => \A fresh \in 1..(MaxReports + 1) \ DOMAIN reports :
                  create(dbAfter, Again(reports[id]), fresh, now).ok

C32_DeleteFreesKey == [][DeleteFreesKey]_vars

\* The second of two stored reports has just been deleted; the first is
\* stored as it was, under its key
C32_Witness ==
    /\ last = [deleted |-> TRUE]
    /\ DOMAIN reports = {1}
    /\ Cardinality(DOMAIN businessKeyIndex) = 1
    /\ \A key \in DOMAIN businessKeyIndex : businessKeyIndex[key] = 1
    /\ reports[1].version = 1

----------------------------------------------------------------------------
\* C36: when a step has called generateDownloadToken, the token map holds
\* the new token, bound to the storage key of the file just stored and
\* expiring TokenTtlMinutes after the call, holds no token that expired
\* before the call, and holds every token it held that had not expired,
\* bound as it was.
MintPurges ==
    minted' # minted =>
    /\ minted' = minted + 1
    /\ \E p \in Procs :
           /\ proc[p].pc = "upload_stored"
           /\ proc'[p] # proc[p]
           /\ minted' \in DOMAIN downloadTokens'
           /\ downloadTokens'[minted']
                  = [storageKey |-> proc[p].stored.storageKey,
                     expiresAt |-> now + TokenTtlMinutes]
    /\ \A t \in DOMAIN downloadTokens' : ~(downloadTokens'[t].expiresAt < now)
    /\ \A t \in DOMAIN downloadTokens :
           ~(downloadTokens[t].expiresAt < now)
           => t \in DOMAIN downloadTokens' /\ downloadTokens'[t] = downloadTokens[t]

C36_MintPurges == [][MintPurges]_vars

\* A second token has just been minted after the first expired: the map
\* holds the second only
C36_Witness ==
    /\ minted = 2
    /\ now = TokenTtlMinutes + 1
    /\ tokenLog[1].expiresAt = TokenTtlMinutes
    /\ DOMAIN downloadTokens = {2}
    /\ downloadTokens[2].expiresAt = now + TokenTtlMinutes
    /\ last = NoResponse
    /\ \E p \in Procs : proc[p].pc = "upload_read"

----------------------------------------------------------------------------
\* The storage keys that the attachments of the stored reports record
RecordedKeys ==
    UNION { { reports[id].attachments[i].storageKey :
                  i \in DOMAIN reports[id].attachments } : id \in DOMAIN reports }

\* C34: whenever no handler is in flight, every stored file is the file of
\* a storage key recorded on an attachment of a stored report, and so is
\* the storage key of every download token in the map that has not
\* expired.
NoOrphans ==
    (\A p \in Procs : proc[p].pc = "idle")
    => /\ files \subseteq RecordedKeys
       /\ \A t \in DOMAIN downloadTokens :
              ~(downloadTokens[t].expiresAt < now)
              => downloadTokens[t].storageKey \in RecordedKeys

C34_NoOrphans == []NoOrphans

----------------------------------------------------------------------------
\* version == 1 + length(auditLog) + length(attachments)
Balanced(report) ==
    report.version = 1 + Len(report.auditLog) + Len(report.attachments)

\* C33: when the requests are handled one at a time, every stored report
\* has a version of one more than its audit entries and its attachments
\* together, and so has the report that db.create returns inside
\* createReport, before the write of the CREATED entry.
VersionBalanced ==
    /\ \A id \in DOMAIN reports : Balanced(reports[id])
    /\ \A r \in PostRequests :
           LET input == CreateReportSchema(r.body)
               report == create(db, input.value, NewReportId, now)
           IN  (input.ok /\ report.ok) => Balanced(report.value)

Retained(idempotencyKey) ==
    \E timer \in timers :
       timer.idempotencyKey = idempotencyKey /\ timer.at >= now

OnlySuccessCached ==
    /\ last'.statusCode >= 400 =>
         UNCHANGED <<idempotencyCache, timers, reports>>
    /\ \A idempotencyKey \in DOMAIN idempotencyCache' \ DOMAIN idempotencyCache :
         /\ last'.statusCode = 200
         /\ [idempotencyKey |-> idempotencyKey, at |-> now + RetentionMinutes]
               \in timers'
    /\ \A p \in Procs, id \in DOMAIN reports, r \in CachePuts :
         (/\ r.user = Editor
          /\ UpdateReportSchema(r.body).ok
          /\ ~Retained(r.idempotencyKey)
          /\ PutStart(p, r.user, id, r.body, r.ifMatch, r.idempotencyKey))
         => /\ proc'[p].pc = "put_read"
            /\ proc'[p].idempotencyKey = r.idempotencyKey
    /\ \A p \in Procs :
         (proc[p].pc = "put_read" /\ proc'[p].pc = "put_written") =>
            reports'[proc[p].id].version = reports[proc[p].id].version + 1

C35_OnlySuccessCached == [][OnlySuccessCached]_vars

\* an update of report 1 under k1 has succeeded and returned (every update
\* here carries k1, and the report is at version 3), more than 24 hours have
\* passed and the deletion of k1 has run, and the next PUT under k1 is being
\* executed: it has read the report and is about to write it
C35_Witness ==
    /\ now > RetentionMinutes
    /\ 1 \in DOMAIN reports
    /\ reports[1].version = 3
    /\ idempotencyCache = EmptyMap
    /\ timers = {}
    /\ proc[1].pc = "put_read"
    /\ proc[1].idempotencyKey = "k1"
    /\ proc[2].pc = "idle"

(***************************************************************************)
(* C37.  Every enqueued job eventually reaches the status completed or     *)
(* failed and then never changes status again, also when jobs are          *)
(* enqueued while the queue is processing.  A job enqueued with a          *)
(* maxRetries of at least 1 is executed at most maxRetries times (each     *)
(* execution either completes the job or adds one to its retries), its     *)
(* retries never exceed maxRetries, and it is failed exactly when its      *)
(* retries have reached maxRetries.                                        *)
(***************************************************************************)
Settled(j) ==
    /\ j \in DOMAIN jobQueue.jobs
    /\ jobQueue.jobs[j].status \in {"completed", "failed"}

\* the executions of a job begun so far: one per retry, and the one that is
\* running or that completed it
Executions(job) ==
    job.retries + IF job.status \in {"processing", "completed"} THEN 1 ELSE 0

JobCounters ==
    \A j \in DOMAIN jobQueue.jobs :
      LET job == jobQueue.jobs[j]
      IN  /\ Executions(job) <= job.maxRetries
          /\ job.retries <= job.maxRetries
          /\ job.status = "failed" <=> job.retries = job.maxRetries

SettledForGood ==
    \A j \in DOMAIN jobQueue.jobs :
      /\ Settled(j) => jobQueue'.jobs[j] = jobQueue.jobs[j]
      /\ \A threw \in BOOLEAN :
           ExecuteJob(j, threw) =>
             /\ jobQueue'.jobs[j].retries =
                    jobQueue.jobs[j].retries + IF threw THEN 1 ELSE 0
             /\ ~threw => jobQueue'.jobs[j].status = "completed"

C37_JobsSettle ==
    /\ [][SettledForGood]_vars
    /\ []JobCounters
    /\ \A j \in 1..MaxJobs : (j \in DOMAIN jobQueue.jobs) ~> Settled(j)

\* a job of the default maxRetries failed on its third execution, the job
\* enqueued behind it while it was executing completed on its second
C37_Witness ==
    /\ Len(jobQueue.jobs) = 2
    /\ jobQueue.jobs[1].maxRetries = DefaultMaxRetries
    /\ jobQueue.jobs[1].status = "failed"
    /\ jobQueue.jobs[1].retries = DefaultMaxRetries
    /\ jobQueue.jobs[2].status = "completed"
    /\ jobQueue.jobs[2].retries = 1
    /\ ~jobQueue.processing

(***************************************************************************)
(* C38.  The job queue has a single worker.  A processQueue loop is        *)
(* suspended only inside processJob, on the job it has marked processing,  *)
(* so the active loops are the jobs of status processing: at every moment  *)
(* at most one job is processing, under every interleaving of enqueue      *)
(* calls with the execution of jobs, and whenever the processing flag is   *)
(* false no job is pending.                                                *)
(***************************************************************************)
JobsProcessing == { j \in DOMAIN jobQueue.jobs : jobQueue.jobs[j].status = "processing" }
JobsPending == { j \in DOMAIN jobQueue.jobs : jobQueue.jobs[j].status = "pending" }

SingleWorker ==
    /\ Cardinality(JobsProcessing) <= 1
    /\ ~jobQueue.processing => JobsPending = {}

C38_SingleWorker == []SingleWorker

\* a job was enqueued while another, already retried once, is executing
C38_Witness ==
    /\ Len(jobQueue.jobs) = 2
    /\ jobQueue.processing
    /\ jobQueue.jobs[1].status = "processing"
    /\ jobQueue.jobs[1].retries = 1
    /\ jobQueue.jobs[2].status = "pending"

(***************************************************************************)
(* C39.  Jobs are a side-channel of committed mutations only.  A step that *)
(* commits a createReport, an updateReport or an addAttachment to the      *)
(* store appends exactly one job, of the type of the mutation and for the  *)
(* report just written; a request that fails appends none, and no job is   *)
(* appended without a store write.  The settling of a job, whether it      *)
(* completes, is retried or fails, changes no stored report and no result  *)
(* a handler is about to return.                                           *)
(***************************************************************************)
JobsAdded == Len(jobQueue'.jobs) - Len(jobQueue.jobs)
NewJob == jobQueue'.jobs[Len(jobQueue'.jobs)]

\* the type of the job that the mutation of this step calls for
MutationType ==
    IF DOMAIN reports' # DOMAIN reports THEN "report-created"
    ELSE IF \E id \in DOMAIN reports :
              Len(reports'[id].attachments) # Len(reports[id].attachments)
    THEN "attachment-uploaded"
    ELSE "report-updated"

JobsSideChannel ==
    /\ reports' # reports =>
         /\ JobsAdded = 1
         /\ SubSeq(jobQueue'.jobs, 1, Len(jobQueue.jobs)) = jobQueue.jobs
         /\ NewJob.type = MutationType
         /\ NewJob.reportId \in DOMAIN reports'
         /\ NewJob.reportId \in DOMAIN reports =>
              reports'[NewJob.reportId] # reports[NewJob.reportId]
         /\ NewJob.retries = 0
         /\ NewJob.maxRetries = DefaultMaxRetries
    /\ reports' = reports => JobsAdded = 0
    /\ ("statusCode" \in DOMAIN last' /\ last'.statusCode >= 400) =>
         /\ JobsAdded = 0
         /\ reports' = reports
    /\ (JobsAdded = 0 /\ jobQueue' # jobQueue) =>
         UNCHANGED <<reports, businessKeyIndex, idempotencyCache, proc>>

C39_JobsSideChannel == [][JobsSideChannel]_vars

\* a create, an update and an upload have each left their job behind: the
\* first failed on its last retry, the second completed, the third is
\* executing, and the report is as the three mutations wrote it
C39_Witness ==
    /\ Len(jobQueue.jobs) = 3
    /\ jobQueue.jobs[1].type = "report-created"
    /\ jobQueue.jobs[1].status = "failed"
    /\ jobQueue.jobs[2].type = "report-updated"
    /\ jobQueue.jobs[2].status = "completed"
    /\ jobQueue.jobs[3].type = "attachment-uploaded"
    /\ jobQueue.jobs[3].status = "processing"
    /\ 1 \in DOMAIN reports
    /\ reports[1].version = 4
    /\ Len(reports[1].attachments) = 1
    /\ last.statusCode = 201

=============================================================================
